---- MODULE Spec2Model ----
(***************************************************************************)
(* Dual-approval checkpoint finality (x/dualapproval keeper).              *)
(*                                                                         *)
(* The model follows nexus-miner/x/dualapproval/keeper/keeper.go and the   *)
(* types of the dualapproval module.  The KV store is modelled by one      *)
(* variable per key family:                                                *)
(*   checkpoint:<height>  -> checkpoints     checkpoint:pending -> pending *)
(*   checkpoint:latest    -> latest          miner:<address>    -> miners  *)
(*   miners:count         -> minersCount     job:pending:<id>   -> jobQueue*)
(* Every keeper call is one atomic step (one transaction of the chain).    *)
(*                                                                         *)
(* Time.  height is the height of the last block whose EndBlocker ran.     *)
(* Transactions run in block height+1 and see BlockTime(height+1).  The    *)
(* EndBlocker step runs the hook at a later height h; the blocks between   *)
(* are blocks without transactions whose hook changes nothing in the       *)
(* store (IdleTick), so folding them into the step loses no store state.   *)
(*                                                                         *)
(* Hashes.  sha256 and hex encoding are taken to be injective; a hash is   *)
(* modelled by the formatted string that is hashed, so two inputs collide  *)
(* in the model exactly when fmt.Sprintf gives them the same text.         *)
(*                                                                         *)
(* Left out of the records because no operation reads them: the miner's    *)
(* PublicKey, ComputePower, RegisteredAt, LastActiveAt; the job's          *)
(* LigandID, LigandHash, Seed, Assigned; the approval's Timestamp.         *)
(*                                                                         *)
(* The L1 contracts (l1-contracts/src) are modelled beside the keeper:     *)
(* isingJobManager and novaVerifier hold the storage of IsingJobManager    *)
(* and NovaVerifier, balances the ether of every account, timestamp the    *)
(* block time.  Every external call is one atomic step (one transaction);  *)
(* a revert leaves the state as it was.                                    *)
(***************************************************************************)
EXTENDS Integers, Sequences, FiniteSets, TLC

VARIABLES height, checkpoints, pending, latest, miners, minersCount, jobQueue, ret,
          isingJobManager, novaVerifier, balances, timestamp

vars == <<height, checkpoints, pending, latest, miners, minersCount, jobQueue, ret,
          isingJobManager, novaVerifier, balances, timestamp>>

store == <<checkpoints, pending, latest, miners, minersCount, jobQueue>>

\* The L1 contracts: the storage of the two contracts, the balance of every
\* account and block.timestamp.
l1 == <<isingJobManager, novaVerifier, balances, timestamp>>

(***************************************************************************)
(* Bounds of the model.                                                    *)
(***************************************************************************)
\* Number of miner addresses that can register.
MaxMiners == 7

\* Last block height the chain reaches.
MaxHeight == 301

(***************************************************************************)
(* Program constants.                                                      *)
(***************************************************************************)
CheckpointInterval == 200

MinCheckpointSigners == 5

CheckpointThreshold == 67

\* "more than 100 blocks old" in expireOldCheckpoints
ExpiryWindow == 100

\* GetPendingDockingJobs(ctx, 10) in CreateCheckpoint
JobsPerCheckpoint == 10

\* Reputation of a newly registered miner
InitialReputation == 500

\* miner.Reputation += 10
ApprovalReward == 10

\* if miner.Reputation > 1000 { miner.Reputation = 1000 }
MaxReputation == 1000

\* SlashMiner: Reputation -= 200
SlashPenalty == 200

\* CanParticipate: Reputation >= 100
MinReputation == 100

\* CheckpointStatus (iota)
CheckpointPending == 0

CheckpointApproved == 1

CheckpointFinalized == 2

CheckpointExpired == 3

\* store.Get(key) == nil for the pointers checkpoint:pending, checkpoint:latest
NoKey == -1

\* FinalizedAt == nil
NoTime == -1

(***************************************************************************)
(* Inputs.                                                                 *)
(***************************************************************************)
AddressNames == [i \in 0..(MaxMiners + 1) |-> "m" \o ToString(i)]

AddressOf(i) == AddressNames[i]

Addresses == {AddressOf(i) : i \in 1..MaxMiners}

\* An address that never registers.
Stranger == AddressOf(0)

\* Keys under job:pending: in the iteration order of the store.
JobIDs == <<"j1">>

\* A job id no queue ever holds.
UnknownJob == "j9"

\* Block hash and validator-set hash of the header at height h ("%X").
HeaderBlockHash(h) == IF h % (2 * CheckpointInterval) = 0 THEN "B2" ELSE "B1"

HeaderValSetHash(h) == "A1"

\* Block time of the block at height h: strictly increasing with h.
BlockTime(h) == h

Min(a, b) == IF a < b THEN a ELSE b

(***************************************************************************)
(* L1 contracts: constants, amounts, accounts and the state after          *)
(* deployment (NovaVerifier first, then IsingJobManager with its address). *)
(***************************************************************************)
\* Number of jobs that are posted.
MaxJobs == 2

\* uint256 public minDeadline = 1 hours
MinDeadline == 3600

\* uint256 public protocolFeePercent = 1
InitialFeePercent == 1

\* require(_feePercent <= 10, "Fee too high")
MaxFeePercent == 10

\* uint256 public challengePeriod = 1 hours
InitialChallengePeriod == 3600

\* require(_period >= 10 minutes, "Period too short")
MinChallengePeriod == 600

\* STUB mode: proof.length >= 32
StubProofLength == 32

\* _fullVerify: proof.length < 1000 is refused
FullProofLength == 1000

\* block.timestamp of the deployment
DeployTime == 1

\* An amount of ether is hi * 10^13 + lo wei, the two parts kept apart (the
\* model checker's integers end at 2^31).  Sums and differences are taken
\* part by part; lo stays far below 10^13 in absolute value, so two amounts
\* are equal exactly when their parts are.
Amount(hi, lo) == [hi |-> hi, lo |-> lo]

NoEther == Amount(0, 0)

Plus(a, b) == Amount(a.hi + b.hi, a.lo + b.lo)

Minus(a, b) == Amount(a.hi - b.hi, a.lo - b.lo)

\* a >= b, for amounts whose lo parts stay far below 10^13 in size
AtLeast(a, b) == a.hi > b.hi \/ (a.hi = b.hi /\ a.lo >= b.lo)

\* (a * percent) / 100 in uint256.  Every reward has hi a multiple of 100
\* (see Values), so hi * percent * 10^13 / 100 is a whole number of 10^13
\* wei and the division rounds down the lo part only.
PercentOf(a, percent) == Amount((a.hi * percent) \div 100, (a.lo * percent) \div 100)

\* uint256 public minReward = 0.001 ether
minReward == Amount(100, 0)

\* Accounts.  Refuser is a contract that takes no ether (no payable receive);
\* Reentrant is a contract whose receive function calls the job manager.
ZeroAddress == "0x0"

Deployer == "owner"

ManagerAddress == "IsingJobManager"

VerifierAddress == "NovaVerifier"

Poster == "0x1"

Solver == "0x2"

Other == "0x3"

Refuser == "0xR"

Reentrant == "0xC"

Accounts == {Deployer, Poster, Solver, Other, Refuser, Reentrant}

\* vm.deal(account, 100 ether)
Funds == Amount(10000000, 0)

\* bytes32(0)
ZeroBytes32 == "0"

ProblemCommitment == "test_problem"

SpinCommitment == "test_spins"

\* int64 public threshold = -50000
Threshold == -50000

JobIds == 0..MaxJobs

\* jobs[jobId] of an id never written: every field zero, so status OPEN.
ZeroJob ==
    [problemCommitment |-> ZeroBytes32, threshold |-> 0, reward |-> NoEther,
     deadline |-> 0, poster |-> ZeroAddress, solver |-> ZeroAddress,
     status |-> "OPEN", createdAt |-> 0]

ZeroSolution == [spinCommitment |-> ZeroBytes32, claimedEnergy |-> 0, proofTimestamp |-> 0]

L1Init ==
    /\ isingJobManager =
          [jobs |-> [id \in JobIds |-> ZeroJob],
           solutions |-> [id \in JobIds |-> ZeroSolution],
           nextJobId |-> 0,
           verifier |-> VerifierAddress,
           owner |-> Deployer,
           protocolFeePercent |-> InitialFeePercent,
           collectedFees |-> NoEther]
    /\ novaVerifier =
          [mode |-> "STUB",
           owner |-> Deployer,
           challengePeriod |-> InitialChallengePeriod,
           proofSubmissionTime |-> <<>>,
           challengedProofs |-> {}]
    /\ balances = [a \in Accounts \cup {ManagerAddress, ZeroAddress} |->
                      IF a \in Accounts THEN Funds ELSE NoEther]
    /\ timestamp = DeployTime

(***************************************************************************)
(* Types (types.go of the dualapproval module).                            *)
(***************************************************************************)
\* Mutant: the number of approvals is part of the hashed text.
ComputeCheckpointHash_CountsApprovals(c) ==
    ToString(c.Height) \o "|" \o c.BlockHash \o "|" \o c.ValidatorSetHash
        \o "|" \o ToString(Len(c.DockingJobs))
        \o "|" \o ToString(Len(c.MinerApprovals))

\* Mutant: the height is left out of the hashed text.
ComputeCheckpointHash_NoHeight(c) ==
    c.BlockHash \o "|" \o c.ValidatorSetHash \o "|" \o ToString(Len(c.DockingJobs))

\* fmt.Sprintf("%d|%s|%s|%d", ...) followed by sha256 and hex
ComputeCheckpointHash(c) ==
    ToString(c.Height) \o "|" \o c.BlockHash \o "|" \o c.ValidatorSetHash
        \o "|" \o ToString(Len(c.DockingJobs))

\* Mutant: the percentage is rounded up instead of truncated.
ApprovalPercentage_RoundedUp(c, totalMiners) ==
    IF totalMiners = 0
    THEN 0
    ELSE (Len(c.MinerApprovals) * 100 + totalMiners - 1) \div totalMiners

ApprovalPercentage(c, totalMiners) ==
    IF totalMiners = 0
    THEN 0
    ELSE (Len(c.MinerApprovals) * 100) \div totalMiners

\* Mutant: the absolute floor of signers is not checked.
CanFinalize_PercentOnly(c, totalMiners) ==
    ApprovalPercentage(c, totalMiners) >= CheckpointThreshold

CanFinalize(c, totalMiners) ==
    /\ Len(c.MinerApprovals) >= MinCheckpointSigners
    /\ ApprovalPercentage(c, totalMiners) >= CheckpointThreshold

\* Mutant: any reputation above zero is enough.
CanParticipate_Positive(m) == ~m.Slashed /\ m.Reputation > 0

\* Mutant: only the slashed flag is looked at.
CanParticipate_SlashedOnly(m) == ~m.Slashed

CanParticipate(m) == ~m.Slashed /\ m.Reputation >= MinReputation

(***************************************************************************)
(* Result verification.                                                    *)
(***************************************************************************)
NoError == "nil"

\* fmt.Sprintf("%s|%s|%s|%s", ...) followed by sha256 and hex
computeResultHash(result) ==
    result.JobID \o "|" \o result.Affinity \o "|" \o result.PoseHash
        \o "|" \o result.ADMETHash

\* Mutant: the hash is compared before the job is looked up.
VerifyDockingResult_HashFirst(result, checkpoint) ==
    IF result.ResultHash # computeResultHash(result)
    THEN "result hash mismatch"
    ELSE IF ~\E i \in 1..Len(checkpoint.DockingJobs) :
                 checkpoint.DockingJobs[i].JobID = result.JobID
    THEN "job not found in checkpoint"
    ELSE NoError

\* Mutant: a checkpoint without jobs accepts a result for any job.
VerifyDockingResult_EmptyAccepts(result, checkpoint) ==
    IF /\ checkpoint.DockingJobs # <<>>
       /\ ~\E i \in 1..Len(checkpoint.DockingJobs) :
              checkpoint.DockingJobs[i].JobID = result.JobID
    THEN "job not found in checkpoint"
    ELSE IF result.ResultHash # computeResultHash(result)
    THEN "result hash mismatch"
    ELSE NoError

\* Mutant: the job is looked up and the result hash is not recomputed.
VerifyDockingResult_JobOnly(result, checkpoint) ==
    IF ~\E i \in 1..Len(checkpoint.DockingJobs) :
            checkpoint.DockingJobs[i].JobID = result.JobID
    THEN "job not found in checkpoint"
    ELSE NoError

VerifyDockingResult(result, checkpoint) ==
    IF ~\E i \in 1..Len(checkpoint.DockingJobs) :
            checkpoint.DockingJobs[i].JobID = result.JobID
    THEN "job not found in checkpoint"
    ELSE IF result.ResultHash # computeResultHash(result)
    THEN "result hash mismatch"
    ELSE NoError

(***************************************************************************)
(* Inputs of the transactions.                                             *)
(***************************************************************************)
DockingResultOf(job, hash) ==
    [JobID |-> job, Affinity |-> "-7.5", PoseHash |-> "p", ADMETHash |-> "a",
     ResultHash |-> hash]

GoodResult(job) ==
    DockingResultOf(job, computeResultHash(DockingResultOf(job, "")))

\* A correct result for the first job, a result for it whose hash is wrong,
\* and a correctly hashed result for a job no checkpoint holds.
Results ==
    {GoodResult(JobIDs[1]), DockingResultOf(JobIDs[1], "bad"),
     GoodResult(UnknownJob)}

JobInputs == {[JobID |-> JobIDs[i], TargetID |-> "6LU7"] : i \in 1..Len(JobIDs)}

(***************************************************************************)
(* Construction: an empty store, no block produced yet.                    *)
(***************************************************************************)
Init ==
    /\ L1Init
    /\ height = 0
    /\ checkpoints = <<>>
    /\ pending = NoKey
    /\ latest = NoKey
    /\ miners = <<>>
    /\ minersCount = 0
    /\ jobQueue = <<>>
    /\ ret = [op |-> "NewKeeper", err |-> NoError]

\* The result of a keeper call, as seen by its caller.
Return(op, err) == ret' = [op |-> op, err |-> err]

(***************************************************************************)
(* Miner management.                                                       *)
(***************************************************************************)
\* Mutant: only the miners that can participate are counted.
GetActiveMinerCount_Eligible ==
    Cardinality({a \in DOMAIN miners : CanParticipate(miners[a])})

GetActiveMinerCount == minersCount

incrementMinerCount == minersCount' = GetActiveMinerCount + 1

\* Mutant: the reputation is left at the zero value.
NewMiner_NoReputation(address) ==
    [Address |-> address, JobsCompleted |-> 0, Reputation |-> 0,
     Slashed |-> FALSE]

NewMiner(address) ==
    [Address |-> address, JobsCompleted |-> 0,
     Reputation |-> InitialReputation, Slashed |-> FALSE]

\* Mutant: a registration for a present address writes a fresh record.
RegisterMiner_Overwrite(address) ==
    /\ UNCHANGED l1
    /\ UNCHANGED <<height, checkpoints, pending, latest, jobQueue>>
    /\ miners' = IF address \in DOMAIN miners
                 THEN [miners EXCEPT ![address] = NewMiner(address)]
                 ELSE miners @@ (address :> NewMiner(address))
    /\ IF address \in DOMAIN miners
       THEN UNCHANGED minersCount
       ELSE incrementMinerCount
    /\ Return("RegisterMiner", NoError)

RegisterMiner(address) ==
    /\ UNCHANGED l1
    /\ UNCHANGED <<height, checkpoints, pending, latest, jobQueue>>
    /\ IF address \in DOMAIN miners
       THEN /\ UNCHANGED <<miners, minersCount>>
            /\ Return("RegisterMiner", "miner already registered")
       ELSE /\ miners' = miners @@ (address :> NewMiner(address))
            /\ incrementMinerCount
            /\ Return("RegisterMiner", NoError)

\* Mutant: the floor branch forgets the slashed flag.
Penalize_NoFlag(miner) ==
    IF miner.Reputation >= SlashPenalty
    THEN [miner EXCEPT !.Reputation = @ - SlashPenalty]
    ELSE [miner EXCEPT !.Reputation = 0]

\* The miner record SlashMiner writes back.
Penalize(miner) ==
    IF miner.Reputation >= SlashPenalty
    THEN [miner EXCEPT !.Reputation = @ - SlashPenalty]
    ELSE [miner EXCEPT !.Reputation = 0, !.Slashed = TRUE]

\* The miner records after SlashMiner(address): nothing for an unknown address.
\* Mutant: an absent miner is created and penalised.
SlashMiner_Upsert(ms, address) ==
    IF address \notin DOMAIN ms
    THEN ms @@ (address :> Penalize(NewMiner(address)))
    ELSE [ms EXCEPT ![address] = Penalize(@)]

SlashMiner(ms, address) ==
    IF address \notin DOMAIN ms
    THEN ms
    ELSE [ms EXCEPT ![address] = Penalize(@)]

(***************************************************************************)
(* Docking job queue.                                                      *)
(***************************************************************************)
\* job:pending:<JobID> is written and never deleted.
SubmitDockingJob(job) ==
    /\ jobQueue' = IF job.JobID \in DOMAIN jobQueue
                    THEN [jobQueue EXCEPT ![job.JobID] = job]
                    ELSE jobQueue @@ (job.JobID :> job)
    /\ UNCHANGED l1
    /\ UNCHANGED <<height, checkpoints, pending, latest, miners, minersCount>>
    /\ Return("SubmitDockingJob", NoError)

\* The first `limit` jobs under the prefix job:pending:, in key order.
GetPendingDockingJobs(limit) ==
    LET keys == SelectSeq(JobIDs, LAMBDA id : id \in DOMAIN jobQueue)
    IN  [i \in 1..Min(limit, Len(keys)) |-> jobQueue[keys[i]]]

(***************************************************************************)
(* Checkpoint management.                                                  *)
(***************************************************************************)
\* The checkpoint CreateCheckpoint stores (the caller has checked the key).
CreateCheckpoint(h, blockHash, valSetHash, now) ==
    [Height |-> h, BlockHash |-> blockHash, ValidatorSetHash |-> valSetHash,
     Status |-> CheckpointPending, CreatedAt |-> now, FinalizedAt |-> NoTime,
     DockingJobs |-> GetPendingDockingJobs(JobsPerCheckpoint),
     MinerApprovals |-> <<>>]

\* GetPendingCheckpoint fails when checkpoint:pending is absent or names a
\* height without checkpoint.
HasPendingCheckpoint == pending # NoKey /\ pending \in DOMAIN checkpoints

\* Mutant: the oldest stored checkpoint is taken instead of the one the
\* pointer names.
GetPendingCheckpoint_Oldest ==
    checkpoints[CHOOSE k \in DOMAIN checkpoints :
                    \A j \in DOMAIN checkpoints : k <= j]

GetPendingCheckpoint == checkpoints[pending]

\* SaveCheckpoint: checkpoint:<Height> is overwritten.
SaveCheckpoint(cps, checkpoint) ==
    IF checkpoint.Height \in DOMAIN cps
    THEN [cps EXCEPT ![checkpoint.Height] = checkpoint]
    ELSE cps @@ (checkpoint.Height :> checkpoint)

\* Mutant: the status is set and the time is not stamped.
FinalizeCheckpoint_NoStamp(checkpoint, now) ==
    [checkpoint EXCEPT !.Status = CheckpointFinalized]

\* Mutant: the reserved status APPROVED is written instead of FINALIZED.
FinalizeCheckpoint_Approved(checkpoint, now) ==
    [checkpoint EXCEPT !.Status = CheckpointApproved, !.FinalizedAt = now]

\* The checkpoint FinalizeCheckpoint saves.
\* Mutant: the time is stamped and the status is left as it was.
FinalizeCheckpoint_StaysPending(checkpoint, now) ==
    [checkpoint EXCEPT !.FinalizedAt = now]

FinalizeCheckpoint(checkpoint, now) ==
    [checkpoint EXCEPT !.Status = CheckpointFinalized, !.FinalizedAt = now]

\* Mutant: the duplicate check looks at the last approval only.
AlreadyApproved_LastOnly(checkpoint, address) ==
    /\ checkpoint.MinerApprovals # <<>>
    /\ checkpoint.MinerApprovals[Len(checkpoint.MinerApprovals)].MinerAddress
           = address

\* Mutant: the duplicate check never finds the miner.
AlreadyApproved_Never(checkpoint, address) == FALSE

AlreadyApproved(checkpoint, address) ==
    \E i \in 1..Len(checkpoint.MinerApprovals) :
        checkpoint.MinerApprovals[i].MinerAddress = address

\* Mutant: the reward does not count the job.
Reward_NoJobCount(miner) ==
    [miner EXCEPT !.Reputation = IF @ + ApprovalReward > MaxReputation
                                 THEN MaxReputation
                                 ELSE @ + ApprovalReward]

\* Mutant: the reward is not capped.
Reward_NoCap(miner) ==
    [miner EXCEPT !.JobsCompleted = @ + 1, !.Reputation = @ + ApprovalReward]

\* The miner record an accepted approval writes back.
Reward(miner) ==
    [miner EXCEPT !.JobsCompleted = @ + 1,
                  !.Reputation = IF @ + ApprovalReward > MaxReputation
                                 THEN MaxReputation
                                 ELSE @ + ApprovalReward]

\* Mutant: a refused call deletes the latest-finalized pointer.
Rejected_ClearsLatest(err) ==
    [err |-> err, checkpoints |-> checkpoints, latest |-> NoKey, miners |-> miners]

\* Mutant: a refused call moves the latest-finalized pointer to the pending
\* checkpoint.
Rejected_MovesLatest(err) ==
    [err |-> err, checkpoints |-> checkpoints, latest |-> pending, miners |-> miners]

\* A failing SubmitMinerApproval that writes nothing.
Rejected(err) ==
    [err |-> err, checkpoints |-> checkpoints, latest |-> latest, miners |-> miners]

\* Mutant: the docking result is verified before the hash is compared.
SubmitMinerApprovalResult_HashLast(approval) ==
    IF approval.MinerAddress \notin DOMAIN miners
    THEN Rejected("miner not registered")
    ELSE IF ~CanParticipate(miners[approval.MinerAddress])
    THEN Rejected("miner not eligible to participate")
    ELSE IF ~HasPendingCheckpoint
    THEN Rejected("no pending checkpoint")
    ELSE IF VerifyDockingResult(approval.DockingResult, GetPendingCheckpoint) # NoError
    THEN [err |-> "invalid docking result: " \o
                      VerifyDockingResult(approval.DockingResult,
                                          GetPendingCheckpoint),
          checkpoints |-> checkpoints,
          latest |-> latest,
          miners |-> SlashMiner(miners, approval.MinerAddress)]
    ELSE IF approval.CheckpointHash # ComputeCheckpointHash(GetPendingCheckpoint)
    THEN Rejected("checkpoint hash mismatch")
    ELSE IF AlreadyApproved(GetPendingCheckpoint, approval.MinerAddress)
    THEN Rejected("miner already approved this checkpoint")
    ELSE LET checkpoint ==
                 [GetPendingCheckpoint EXCEPT
                     !.MinerApprovals = Append(@, approval)]
             rewarded == [miners EXCEPT ![approval.MinerAddress] = Reward(@)]
         IN  IF CanFinalize(checkpoint, GetActiveMinerCount)
             THEN [err |-> NoError,
                   checkpoints |->
                       SaveCheckpoint(checkpoints,
                           FinalizeCheckpoint(checkpoint, BlockTime(height + 1))),
                   latest |-> checkpoint.Height,
                   miners |-> rewarded]
             ELSE [err |-> NoError,
                   checkpoints |-> SaveCheckpoint(checkpoints, checkpoint),
                   latest |-> latest,
                   miners |-> rewarded]

\* What SubmitMinerApproval returns and what it leaves in the store.
SubmitMinerApprovalResult(approval) ==
    IF approval.MinerAddress \notin DOMAIN miners
    THEN Rejected("miner not registered")
    ELSE IF ~CanParticipate(miners[approval.MinerAddress])
    THEN Rejected("miner not eligible to participate")
    ELSE IF ~HasPendingCheckpoint
    THEN Rejected("no pending checkpoint")
    ELSE IF approval.CheckpointHash # ComputeCheckpointHash(GetPendingCheckpoint)
    THEN Rejected("checkpoint hash mismatch")
    ELSE IF VerifyDockingResult(approval.DockingResult, GetPendingCheckpoint) # NoError
    THEN [err |-> "invalid docking result: " \o
                      VerifyDockingResult(approval.DockingResult,
                                          GetPendingCheckpoint),
          checkpoints |-> checkpoints,
          latest |-> latest,
          miners |-> SlashMiner(miners, approval.MinerAddress)]
    ELSE IF AlreadyApproved(GetPendingCheckpoint, approval.MinerAddress)
    THEN Rejected("miner already approved this checkpoint")
    ELSE LET checkpoint ==
                 [GetPendingCheckpoint EXCEPT
                     !.MinerApprovals = Append(@, approval)]
             rewarded == [miners EXCEPT ![approval.MinerAddress] = Reward(@)]
         IN  IF CanFinalize(checkpoint, GetActiveMinerCount)
             THEN [err |-> NoError,
                   checkpoints |->
                       SaveCheckpoint(checkpoints,
                           FinalizeCheckpoint(checkpoint, BlockTime(height + 1))),
                   latest |-> checkpoint.Height,
                   miners |-> rewarded]
             ELSE [err |-> NoError,
                   checkpoints |-> SaveCheckpoint(checkpoints, checkpoint),
                   latest |-> latest,
                   miners |-> rewarded]

SubmitMinerApproval(approval) ==
    LET result == SubmitMinerApprovalResult(approval)
    IN  /\ checkpoints' = result.checkpoints
        /\ latest' = result.latest
        /\ miners' = result.miners
        /\ Return("SubmitMinerApproval", result.err)
        /\ UNCHANGED l1
        /\ UNCHANGED <<height, pending, minersCount, jobQueue>>

(***************************************************************************)
(* End-block hook.                                                         *)
(***************************************************************************)
\* height % CheckpointInterval == 0 && height > 0
IsCheckpointBlock(h) == h % CheckpointInterval = 0 /\ h > 0

\* Mutant: the window is closed one block early (>= instead of >).
ExpiryDue_Inclusive(checkpoint, currentHeight) ==
    /\ currentHeight - checkpoint.Height >= ExpiryWindow
    /\ checkpoint.Status = CheckpointPending

\* Mutant: nothing ever expires.
ExpiryDue_Never(checkpoint, currentHeight) == FALSE

\* Mutant: the status of the checkpoint is not looked at.
ExpiryDue_AnyStatus(checkpoint, currentHeight) ==
    currentHeight - checkpoint.Height > ExpiryWindow

\* currentHeight - checkpoint.Height > 100 && Status == CheckpointPending
ExpiryDue(checkpoint, currentHeight) ==
    /\ currentHeight - checkpoint.Height > ExpiryWindow
    /\ checkpoint.Status = CheckpointPending

\* Mutant: the expired checkpoint loses its approvals.
expireOldCheckpoints_DropApprovals(cps, pend, currentHeight) ==
    IF pend = NoKey \/ pend \notin DOMAIN cps
    THEN cps
    ELSE IF ExpiryDue(cps[pend], currentHeight)
    THEN SaveCheckpoint(cps, [cps[pend] EXCEPT !.Status = CheckpointExpired,
                                               !.MinerApprovals = <<>>])
    ELSE cps

\* The checkpoints after expireOldCheckpoints(currentHeight), run on the
\* checkpoints cps with the pending pointer pend.
expireOldCheckpoints(cps, pend, currentHeight) ==
    IF pend = NoKey \/ pend \notin DOMAIN cps
    THEN cps
    ELSE IF ExpiryDue(cps[pend], currentHeight)
    THEN SaveCheckpoint(cps, [cps[pend] EXCEPT !.Status = CheckpointExpired])
    ELSE cps

\* The hook at height h leaves the store as it is.
IdleTick(h) ==
    /\ ~IsCheckpointBlock(h)
    /\ expireOldCheckpoints(checkpoints, pending, h) = checkpoints

\* Heights at which the hook is observed: the checkpoint blocks, and the
\* last block inside and the first block past the expiry window of the
\* pending checkpoint.
TickHeights ==
    {h \in 1..MaxHeight :
        \/ IsCheckpointBlock(h)
        \/ /\ HasPendingCheckpoint
           /\ h - pending \in {ExpiryWindow, ExpiryWindow + 1}}

\* Mutant: the pending pointer moves at every checkpoint block, whether or
\* not the checkpoint was created.
EndBlocker_AlwaysPoints(h) ==
    /\ h > height
    /\ {x \in (height + 1)..(h - 1) : ~IdleTick(x)} = {}
    /\ height' = h
    /\ LET created == IsCheckpointBlock(h) /\ h \notin DOMAIN checkpoints
           stored == IF created
                     THEN SaveCheckpoint(checkpoints,
                              CreateCheckpoint(h, HeaderBlockHash(h),
                                               HeaderValSetHash(h), BlockTime(h)))
                     ELSE checkpoints
           pointer == IF IsCheckpointBlock(h) THEN h ELSE pending
       IN  /\ pending' = pointer
           /\ checkpoints' = expireOldCheckpoints(stored, pointer, h)
    /\ UNCHANGED l1
    /\ UNCHANGED <<latest, miners, minersCount, jobQueue>>
    /\ Return("EndBlocker", NoError)

EndBlocker(h) ==
    /\ h > height
    /\ {x \in (height + 1)..(h - 1) : ~IdleTick(x)} = {}
    /\ height' = h
    /\ LET created == IsCheckpointBlock(h) /\ h \notin DOMAIN checkpoints
           stored == IF created
                     THEN SaveCheckpoint(checkpoints,
                              CreateCheckpoint(h, HeaderBlockHash(h),
                                               HeaderValSetHash(h), BlockTime(h)))
                     ELSE checkpoints
           pointer == IF created THEN h ELSE pending
       IN  /\ pending' = pointer
           /\ checkpoints' = expireOldCheckpoints(stored, pointer, h)
    /\ UNCHANGED l1
    /\ UNCHANGED <<latest, miners, minersCount, jobQueue>>
    /\ Return("EndBlocker", NoError)

(***************************************************************************)
(* The chain: transactions and end-block hooks, one at a time.             *)
(***************************************************************************)
\* Addresses are opaque strings compared for equality only, so new miners
\* register in the order of their names: the next one is m<count + 1>.
HasApproved(address) ==
    \E k \in DOMAIN checkpoints : AlreadyApproved(checkpoints[k], address)

\* The one miner that submits results that fail verification.
Cheater == AddressOf(1)

\* A call by a and the same call by b have the same effect up to the names:
\* the two records are equal and either neither miner has approved anything
\* (exchanging the names leaves the store as it is), or both have approved
\* the pending checkpoint (the call writes nothing and returns the same).
Interchangeable(a, b) ==
    /\ a # Cheater /\ b # Cheater
    /\ [miners[a] EXCEPT !.Address = b] = miners[b]
    /\ \/ ~HasApproved(a) /\ ~HasApproved(b)
       \/ /\ HasPendingCheckpoint
          /\ AlreadyApproved(GetPendingCheckpoint, a)
          /\ AlreadyApproved(GetPendingCheckpoint, b)

\* Of the registered miners that are interchangeable, the one with the least
\* name is the one that calls.  The registered miners are m1 .. m<count>;
\* index 0 is the stranger.
Leader(i) ==
    ~\E j \in 1..(i - 1) : Interchangeable(AddressOf(i), AddressOf(j))

InvalidResultErrors ==
    {"invalid docking result: job not found in checkpoint",
     "invalid docking result: result hash mismatch"}

\* The checkpoint a miner hashes: the pending one as stored, or a copy of it
\* taken at the other checkpoint height or with another block hash.
ObservedCheckpoints ==
    LET c == IF HasPendingCheckpoint
             THEN GetPendingCheckpoint
             ELSE CreateCheckpoint(CheckpointInterval,
                                   HeaderBlockHash(CheckpointInterval),
                                   HeaderValSetHash(CheckpointInterval), 0)
    IN  {c,
         [c EXCEPT !.Height = IF @ = CheckpointInterval
                              THEN 2 * CheckpointInterval
                              ELSE CheckpointInterval],
         [c EXCEPT !.BlockHash = "FF"]}

ApprovalInputs(address) ==
    [MinerAddress : {address},
     CheckpointHash : {ComputeCheckpointHash(c) : c \in ObservedCheckpoints},
     DockingResult : Results, Signature : {"sig"}]

Next ==
    \/ \E i \in 1..Min(minersCount + 1, MaxMiners) :
          /\ i <= minersCount => Leader(i)
          /\ RegisterMiner(AddressOf(i))
    \/ \E job \in JobInputs : SubmitDockingJob(job)
    \/ \E i \in 0..minersCount :
          /\ Leader(i)
          /\ \E approval \in ApprovalInputs(AddressOf(i)) :
                /\ SubmitMinerApproval(approval)
                /\ ret'.err \in InvalidResultErrors
                       => approval.MinerAddress = Cheater
    \/ \E h \in TickHeights : EndBlocker(h)

Spec == Init /\ [][Next]_vars

\* The hook of the next observed height.
Tick == \E h \in TickHeights : EndBlocker(h)

\* The chain produces blocks for ever: the hook of the next block runs,
\* whatever transactions arrive.
SpecTicking == Init /\ [][Next]_vars /\ WF_vars(Tick)

(***************************************************************************)
(* The quorum rule alone: CanFinalize applied to a checkpoint with a given *)
(* number of approvals and a given miner count.                            *)
(***************************************************************************)
\* Largest number of approvals and largest miner count the rule is tried on.
MaxPopulation == 10

\* A checkpoint holding the approvals of the first n miners.
CheckpointWithApprovals(n) ==
    [CreateCheckpoint(CheckpointInterval, HeaderBlockHash(CheckpointInterval),
                      HeaderValSetHash(CheckpointInterval),
                      BlockTime(CheckpointInterval))
        EXCEPT !.MinerApprovals =
            [i \in 1..n |->
                [MinerAddress |-> "m" \o ToString(i), CheckpointHash |-> "",
                 DockingResult |-> GoodResult(JobIDs[1]), Signature |-> "sig"]]]

QuorumInit ==
    /\ L1Init
    /\ height = 0
    /\ checkpoints = <<>>
    /\ pending = NoKey
    /\ latest = NoKey
    /\ miners = <<>>
    /\ minersCount = 0
    /\ jobQueue = <<>>
    /\ ret \in [op : {"input"}, err : {NoError},
                approvals : 0..MaxPopulation, totalMiners : 0..MaxPopulation]

EvalCanFinalize ==
    /\ ret.op = "input"
    /\ ret' = [op |-> "CanFinalize", err |-> NoError,
               approvals |-> ret.approvals, totalMiners |-> ret.totalMiners,
               value |-> CanFinalize(CheckpointWithApprovals(ret.approvals),
                                     ret.totalMiners)]
    /\ UNCHANGED l1
    /\ UNCHANGED <<height, checkpoints, pending, latest, miners, minersCount,
                   jobQueue>>

SpecQuorum == QuorumInit /\ [][EvalCanFinalize]_vars

(***************************************************************************)
(* The penalty alone: SlashMiner called on a registry of one miner that    *)
(* has had `a` approvals accepted and then `n` invalid results slashed     *)
(* (every record drawn is one SubmitMinerApproval produces over a run of   *)
(* `a` checkpoints).                                                       *)
(***************************************************************************)
\* Largest number of accepted approvals in the history of the miner.
MaxAccepted == 30

RECURSIVE Rewarded(_, _)
Rewarded(miner, a) == IF a = 0 THEN miner ELSE Rewarded(Reward(miner), a - 1)

\* n invalid results, each submitted while the miner is still eligible.
RECURSIVE Slashings(_, _)
Slashings(miner, n) ==
    IF n = 0 \/ ~CanParticipate(miner)
    THEN miner
    ELSE Slashings(Penalize(miner), n - 1)

SlashInit ==
    /\ L1Init
    /\ height = 0
    /\ checkpoints = <<>>
    /\ pending = NoKey
    /\ latest = NoKey
    /\ jobQueue = <<>>
    /\ minersCount = 1
    /\ \E a \in 0..MaxAccepted, n \in 0..3 :
          miners = (AddressOf(1) :>
                        Slashings(Rewarded(NewMiner(AddressOf(1)), a), n))
    /\ ret = [op |-> "GetMiner", err |-> NoError]

SlashMinerCall(address) ==
    /\ miners' = SlashMiner(miners, address)
    /\ ret' = [op |-> "SlashMiner", err |-> NoError, address |-> address,
               before |-> IF address \in DOMAIN miners
                          THEN miners[address].Reputation
                          ELSE NoKey]
    /\ UNCHANGED l1
    /\ UNCHANGED <<height, checkpoints, pending, latest, minersCount, jobQueue>>

SlashNext == \E address \in {AddressOf(1), Stranger} : SlashMinerCall(address)

SpecSlash == SlashInit /\ [][SlashNext]_vars

(***************************************************************************)
(* Result verification alone: VerifyDockingResult of either keeper applied *)
(* to a result and a checkpoint.  The results name a job of the batch or   *)
(* not, and carry the hash of their own fields, the hash of other fields,  *)
(* or no hash at all; the batches hold no job, one job, or two.            *)
(***************************************************************************)
\* VerifyDockingResult of the nexus-chain keeper.
ChainVerifyDockingResult(result, checkpoint) ==
    IF ~\E i \in 1..Len(checkpoint.DockingJobs) :
            checkpoint.DockingJobs[i].JobID = result.JobID
    THEN "job not in checkpoint"
    ELSE IF result.ResultHash # computeResultHash(result)
    THEN "result hash mismatch"
    ELSE NoError

JobOf(id) == [JobID |-> id, TargetID |-> "6LU7"]

JobBatches ==
    {<<>>, <<JobOf("j1")>>, <<JobOf("j1"), JobOf("j2")>>,
     <<JobOf("j2"), JobOf("j1")>>}

ResultFields ==
    [JobID : {"j1", "j2", UnknownJob}, Affinity : {"-7.5", "-8.1"},
     PoseHash : {"p"}, ADMETHash : {"a"}]

\* The result with a ResultHash: its own, that of the result with the other
\* affinity, or the empty string.
ResultInputs ==
    UNION {{[JobID |-> f.JobID, Affinity |-> f.Affinity, PoseHash |-> f.PoseHash,
             ADMETHash |-> f.ADMETHash, ResultHash |-> hash] :
               hash \in {computeResultHash(g) :
                            g \in {x \in ResultFields : x.JobID = f.JobID}}
                        \cup {""}} :
           f \in ResultFields}

CheckpointWithJobs(jobs) ==
    [Height |-> CheckpointInterval,
     BlockHash |-> HeaderBlockHash(CheckpointInterval),
     ValidatorSetHash |-> HeaderValSetHash(CheckpointInterval),
     Status |-> CheckpointPending, CreatedAt |-> BlockTime(CheckpointInterval),
     FinalizedAt |-> NoTime, DockingJobs |-> jobs, MinerApprovals |-> <<>>]

VerifyInit ==
    /\ L1Init
    /\ height = 0
    /\ checkpoints = <<>>
    /\ pending = NoKey
    /\ latest = NoKey
    /\ miners = <<>>
    /\ minersCount = 0
    /\ jobQueue = <<>>
    /\ ret \in [op : {"input"}, err : {NoError}, result : ResultInputs,
                checkpoint : {CheckpointWithJobs(jobs) : jobs \in JobBatches}]

EvalVerifyDockingResult ==
    /\ ret.op = "input"
    /\ ret' = [op |-> "VerifyDockingResult",
               err |-> VerifyDockingResult(ret.result, ret.checkpoint),
               result |-> ret.result, checkpoint |-> ret.checkpoint]
    /\ UNCHANGED l1
    /\ UNCHANGED <<height, checkpoints, pending, latest, miners, minersCount,
                   jobQueue>>

EvalChainVerifyDockingResult ==
    /\ ret.op = "input"
    /\ ret' = [op |-> "ChainVerifyDockingResult",
               err |-> ChainVerifyDockingResult(ret.result, ret.checkpoint),
               result |-> ret.result, checkpoint |-> ret.checkpoint]
    /\ UNCHANGED l1
    /\ UNCHANGED <<height, checkpoints, pending, latest, miners, minersCount,
                   jobQueue>>

VerifyNext == EvalVerifyDockingResult \/ EvalChainVerifyDockingResult

SpecVerify == VerifyInit /\ [][VerifyNext]_vars

(***************************************************************************)
(* The career of one miner over many checkpoints: the miner registers, a   *)
(* job is queued, and every checkpoint is approved by the miner before the *)
(* chain moves on, as long as the miner is eligible.  The miner may submit *)
(* invalid results at any time.  These runs reach the reputation cap.  A   *)
(* second miner may register and then only stands by.                      *)
(***************************************************************************)
\* Number of checkpoint blocks of a career.
CareerCheckpoints == 52

CareerHeight == CareerCheckpoints * CheckpointInterval + ExpiryWindow + 1

Careerist == AddressOf(1)

Bystander == AddressOf(2)

\* Heights at which the hook is observed, none beyond the next checkpoint
\* block.
CareerTickHeights ==
    {h \in (height + 1)..Min(height + CheckpointInterval, CareerHeight) :
        \/ IsCheckpointBlock(h)
        \/ /\ HasPendingCheckpoint
           /\ h - pending \in {ExpiryWindow, ExpiryWindow + 1}}

\* The chain moves on when the miner is registered and eligible, a job is
\* queued, and the miner has approved the pending checkpoint, if any.
CareerMovesOn ==
    /\ Careerist \in DOMAIN miners
    /\ jobQueue # <<>>
    /\ HasPendingCheckpoint
           => \/ AlreadyApproved(GetPendingCheckpoint, Careerist)
              \/ ( ~CanParticipate(miners[Careerist])
                   /\ GetPendingCheckpoint.Status = CheckpointPending )
    /\ ~HasPendingCheckpoint \/ GetPendingCheckpoint.Status # CheckpointPending
           => CanParticipate(miners[Careerist])

CareerNext ==
    \/ RegisterMiner(Careerist)
    \/ RegisterMiner(Bystander)
    \/ \E job \in JobInputs : SubmitDockingJob(job)
    \/ \E approval \in ApprovalInputs(Careerist) : SubmitMinerApproval(approval)
    \/ \E h \in CareerTickHeights : CareerMovesOn /\ EndBlocker(h)

SpecCareer == Init /\ [][CareerNext]_vars

(***************************************************************************)
(* Several miners approving the same checkpoints: the handler runs once    *)
(* per transaction, one transaction at a time, so the calls of the miners  *)
(* interleave in any order, repeated calls included.  The first miner has  *)
(* a career of its own, long enough to arrive at the reputation cap; the   *)
(* others register at the last checkpoint of it.  The chain moves on when  *)
(* every registered miner has approved the pending checkpoint.             *)
(***************************************************************************)
\* Number of miners that race.
RaceMiners == 3

Racers == {AddressOf(i) : i \in 1..RaceMiners}

\* The approval after the one that reaches the cap is the first one capped.
RaceCheckpoints == (MaxReputation - InitialReputation) \div ApprovalReward + 1

RaceHeight == RaceCheckpoints * CheckpointInterval + ExpiryWindow + 1

RaceStart == RaceCheckpoints * CheckpointInterval

RaceTickHeights ==
    {h \in (height + 1)..Min(height + CheckpointInterval, RaceHeight) :
        \/ IsCheckpointBlock(h)
        \/ /\ HasPendingCheckpoint
           /\ h - pending \in {ExpiryWindow, ExpiryWindow + 1}}

RaceMovesOn ==
    /\ Careerist \in DOMAIN miners
    /\ jobQueue # <<>>
    /\ HasPendingCheckpoint
           => \A a \in Racers \cap DOMAIN miners :
                 AlreadyApproved(GetPendingCheckpoint, a)

RaceNext ==
    \/ \E a \in Racers :
          /\ a # Careerist => height >= RaceStart
          /\ RegisterMiner(a)
    \/ \E job \in JobInputs : SubmitDockingJob(job)
    \/ \E a \in Racers :
          \E approval \in ApprovalInputs(a) :
             /\ SubmitMinerApproval(approval)
             /\ ret'.err \notin InvalidResultErrors
    \/ \E h \in RaceTickHeights : RaceMovesOn /\ EndBlocker(h)

SpecRace == Init /\ [][RaceNext]_vars

(***************************************************************************)
(* CreateCheckpoint called on the keeper directly, besides its call by the *)
(* end-block hook: at a checkpoint block, at another height, and with      *)
(* another block hash.  Such a call does not move the pending pointer.     *)
(***************************************************************************)
\* Number of miners of these runs.
CreateMiners == 2

CreateHeights == {CheckpointInterval, CheckpointInterval \div 2}

\* Mutant: an existing checkpoint is replaced.
CreateCheckpointCall_Overwrite(h, blockHash, valSetHash) ==
    /\ checkpoints' =
          SaveCheckpoint(checkpoints,
              CreateCheckpoint(h, blockHash, valSetHash, BlockTime(height + 1)))
    /\ ret' = [op |-> "CreateCheckpoint", err |-> NoError, height |-> h]
    /\ UNCHANGED l1
    /\ UNCHANGED <<height, pending, latest, miners, minersCount, jobQueue>>

CreateCheckpointCall(h, blockHash, valSetHash) ==
    /\ IF h \in DOMAIN checkpoints
       THEN /\ UNCHANGED checkpoints
            /\ ret' = [op |-> "CreateCheckpoint",
                       err |-> "checkpoint already exists for this height",
                       height |-> h]
       ELSE /\ checkpoints' =
                  SaveCheckpoint(checkpoints,
                      CreateCheckpoint(h, blockHash, valSetHash,
                                       BlockTime(height + 1)))
            /\ ret' = [op |-> "CreateCheckpoint", err |-> NoError, height |-> h]
    /\ UNCHANGED l1
    /\ UNCHANGED <<height, pending, latest, miners, minersCount, jobQueue>>

CreateNext ==
    \/ \E h \in CreateHeights :
          \E blockHash \in {HeaderBlockHash(h), "FF"} :
             CreateCheckpointCall(h, blockHash, HeaderValSetHash(h))
    \/ \E i \in 1..Min(minersCount + 1, CreateMiners) :
          /\ i <= minersCount => Leader(i)
          /\ RegisterMiner(AddressOf(i))
    \/ \E job \in JobInputs : SubmitDockingJob(job)
    \/ \E i \in 0..minersCount :
          /\ Leader(i)
          /\ \E approval \in ApprovalInputs(AddressOf(i)) :
                /\ SubmitMinerApproval(approval)
                /\ ret'.err \in InvalidResultErrors
                       => approval.MinerAddress = Cheater
    \/ \E h \in TickHeights : EndBlocker(h)

SpecCreate == Init /\ [][CreateNext]_vars

(***************************************************************************)
(* The nexus-chain keeper.  Its store and its checks are those of the      *)
(* nexus-miner keeper; it differs in the error texts, in having no         *)
(* SubmitDockingJob (nothing ever writes its job queue) and in its         *)
(* EndBlocker, which never expires a checkpoint.                           *)
(***************************************************************************)
\* Number of miners and last height of the nexus-chain runs.
ChainMiners == 2
ChainHeight == 400

\* errors.New texts of the nexus-chain keeper, by the nexus-miner text of
\* the same check.
ChainError(err) ==
    CASE err = "miner already registered" -> "already registered"
      [] err = "miner not eligible to participate" -> "miner not eligible"
      [] err = "invalid docking result: job not found in checkpoint"
            -> "job not in checkpoint"
      [] err = "invalid docking result: result hash mismatch"
            -> "result hash mismatch"
      [] err = "miner already approved this checkpoint" -> "already approved"
      [] OTHER -> err

ChainRegisterMiner(address) ==
    /\ UNCHANGED l1
    /\ UNCHANGED <<height, checkpoints, pending, latest, jobQueue>>
    /\ IF address \in DOMAIN miners
       THEN /\ UNCHANGED <<miners, minersCount>>
            /\ Return("RegisterMiner", ChainError("miner already registered"))
       ELSE /\ miners' = miners @@ (address :> NewMiner(address))
            /\ incrementMinerCount
            /\ Return("RegisterMiner", NoError)

ChainSubmitMinerApproval(approval) ==
    LET result == SubmitMinerApprovalResult(approval)
    IN  /\ checkpoints' = result.checkpoints
        /\ latest' = result.latest
        /\ miners' = result.miners
        /\ Return("SubmitMinerApproval", ChainError(result.err))
        /\ UNCHANGED l1
        /\ UNCHANGED <<height, pending, minersCount, jobQueue>>

\* The hook at height h, the ticks skipped before it being at heights that
\* are no checkpoint blocks, where this hook does nothing.
ChainEndBlocker(h) ==
    /\ h > height
    /\ {x \in (height + 1)..(h - 1) : IsCheckpointBlock(x)} = {}
    /\ height' = h
    /\ LET created == IsCheckpointBlock(h) /\ h \notin DOMAIN checkpoints
       IN  /\ checkpoints' =
                 IF created
                 THEN SaveCheckpoint(checkpoints,
                          CreateCheckpoint(h, HeaderBlockHash(h),
                                           HeaderValSetHash(h), BlockTime(h)))
                 ELSE checkpoints
           /\ pending' = IF created THEN h ELSE pending
    /\ UNCHANGED l1
    /\ UNCHANGED <<latest, miners, minersCount, jobQueue>>
    /\ Return("EndBlocker", NoError)

ChainNext ==
    \/ \E i \in 1..Min(minersCount + 1, ChainMiners) :
          ChainRegisterMiner(AddressOf(i))
    \/ \E i \in 0..minersCount :
          \E approval \in ApprovalInputs(AddressOf(i)) :
             ChainSubmitMinerApproval(approval)
    \/ \E h \in 1..ChainHeight : IsCheckpointBlock(h) /\ ChainEndBlocker(h)

SpecChain == Init /\ [][ChainNext]_vars

(***************************************************************************)
(* The nexus-chain keeper as functions of a store k, written from its own  *)
(* source, and the operations the two keepers share, run by the            *)
(* nexus-miner keeper: RegisterMiner, CreateCheckpoint,                    *)
(* SubmitMinerApproval and EndBlocker, with jobs queued or not.  The hook  *)
(* is not run at a height where the pending checkpoint is PENDING and more *)
(* than 100 blocks old.                                                    *)
(***************************************************************************)
\* The store of the keeper, key family by key family.
KeeperStore ==
    [checkpoints |-> checkpoints, pending |-> pending, latest |-> latest,
     miners |-> miners, minersCount |-> minersCount, jobQueue |-> jobQueue]

chain_GetPendingDockingJobs(k, limit) ==
    LET keys == SelectSeq(JobIDs, LAMBDA id : id \in DOMAIN k.jobQueue)
    IN  [i \in 1..Min(limit, Len(keys)) |-> k.jobQueue[keys[i]]]

chain_SaveCheckpoint(k, checkpoint) ==
    [k EXCEPT !.checkpoints =
        IF checkpoint.Height \in DOMAIN @
        THEN [@ EXCEPT ![checkpoint.Height] = checkpoint]
        ELSE @ @@ (checkpoint.Height :> checkpoint)]

chain_CreateCheckpoint(k, h, blockHash, valSetHash, now) ==
    IF h \in DOMAIN k.checkpoints
    THEN [err |-> "checkpoint already exists", store |-> k]
    ELSE [err |-> NoError,
          store |-> chain_SaveCheckpoint(k,
              [Height |-> h, BlockHash |-> blockHash,
               ValidatorSetHash |-> valSetHash, Status |-> CheckpointPending,
               CreatedAt |-> now, FinalizedAt |-> NoTime,
               DockingJobs |-> chain_GetPendingDockingJobs(k, JobsPerCheckpoint),
               MinerApprovals |-> <<>>])]

chain_RegisterMiner(k, address) ==
    IF address \in DOMAIN k.miners
    THEN [err |-> "already registered", store |-> k]
    ELSE [err |-> NoError,
          store |-> [k EXCEPT
              !.miners = @ @@ (address :>
                  [Address |-> address, JobsCompleted |-> 0,
                   Reputation |-> InitialReputation, Slashed |-> FALSE]),
              !.minersCount = @ + 1]]

chain_SlashMiner(k, address) ==
    IF address \notin DOMAIN k.miners
    THEN k
    ELSE IF k.miners[address].Reputation >= SlashPenalty
    THEN [k EXCEPT !.miners[address].Reputation = @ - SlashPenalty]
    ELSE [k EXCEPT !.miners[address].Reputation = 0,
                   !.miners[address].Slashed = TRUE]

\* Mutant: checkpoint:latest is not written.
chain_FinalizeCheckpoint_NoLatest(k, checkpoint, now) ==
    chain_SaveCheckpoint(k, [checkpoint EXCEPT !.Status = CheckpointFinalized,
                                               !.FinalizedAt = now])

chain_FinalizeCheckpoint(k, checkpoint, now) ==
    [chain_SaveCheckpoint(k, [checkpoint EXCEPT !.Status = CheckpointFinalized,
                                                !.FinalizedAt = now])
        EXCEPT !.latest = checkpoint.Height]

chain_SubmitMinerApproval(k, approval, now) ==
    IF approval.MinerAddress \notin DOMAIN k.miners
    THEN [err |-> "miner not registered", store |-> k]
    ELSE IF ~CanParticipate(k.miners[approval.MinerAddress])
    THEN [err |-> "miner not eligible", store |-> k]
    ELSE IF k.pending = NoKey \/ k.pending \notin DOMAIN k.checkpoints
    THEN [err |-> "no pending checkpoint", store |-> k]
    ELSE LET checkpoint == k.checkpoints[k.pending]
             err == ChainVerifyDockingResult(approval.DockingResult, checkpoint)
         IN  IF approval.CheckpointHash # ComputeCheckpointHash(checkpoint)
             THEN [err |-> "checkpoint hash mismatch", store |-> k]
             ELSE IF err # NoError
             THEN [err |-> err,
                   store |-> chain_SlashMiner(k, approval.MinerAddress)]
             ELSE IF \E i \in 1..Len(checkpoint.MinerApprovals) :
                        checkpoint.MinerApprovals[i].MinerAddress
                            = approval.MinerAddress
             THEN [err |-> "already approved", store |-> k]
             ELSE LET approved ==
                          [checkpoint EXCEPT
                              !.MinerApprovals = Append(@, approval)]
                      paid ==
                          [k EXCEPT
                              !.miners[approval.MinerAddress].JobsCompleted = @ + 1,
                              !.miners[approval.MinerAddress].Reputation =
                                  IF @ + ApprovalReward > MaxReputation
                                  THEN MaxReputation
                                  ELSE @ + ApprovalReward]
                  IN  [err |-> NoError,
                       store |-> IF CanFinalize(approved, paid.minersCount)
                                 THEN chain_FinalizeCheckpoint(paid, approved, now)
                                 ELSE chain_SaveCheckpoint(paid, approved)]

\* The hook of the nexus-chain keeper at height h: no expiry.
chain_EndBlocker(k, h) ==
    IF h % CheckpointInterval = 0 /\ h > 0
    THEN LET created == chain_CreateCheckpoint(k, h, HeaderBlockHash(h),
                                               HeaderValSetHash(h), BlockTime(h))
         IN  IF created.err = NoError
             THEN [created.store EXCEPT !.pending = h]
             ELSE k
    ELSE k

\* Number of miners and last height of these runs.
SharedMiners == 5
SharedHeight == 301

\* The hook at height h finds no PENDING checkpoint more than 100 blocks old
\* under checkpoint:pending.
NothingToExpire(h) ==
    LET created == IsCheckpointBlock(h) /\ h \notin DOMAIN checkpoints
    IN  ~created /\ HasPendingCheckpoint
         /\ GetPendingCheckpoint.Status = CheckpointPending
            => h - pending <= ExpiryWindow

SharedTickHeights ==
    {h \in (height + 1)..SharedHeight :
        \/ IsCheckpointBlock(h)
        \/ /\ HasPendingCheckpoint
           /\ h - pending \in {ExpiryWindow, ExpiryWindow + 1}}

SharedNext ==
    \/ CreateCheckpointCall(CheckpointInterval, "FF",
                            HeaderValSetHash(CheckpointInterval))
    \/ \E i \in 1..Min(minersCount + 1, SharedMiners) :
          /\ i <= minersCount => Leader(i)
          /\ RegisterMiner(AddressOf(i))
    \/ \E job \in JobInputs : SubmitDockingJob(job)
    \/ \E i \in 0..minersCount :
          /\ Leader(i)
          /\ \E approval \in ApprovalInputs(AddressOf(i)) :
                /\ SubmitMinerApproval(approval)
                /\ ret'.err \in InvalidResultErrors
                       => approval.MinerAddress = Cheater
    \/ \E h \in SharedTickHeights : NothingToExpire(h) /\ EndBlocker(h)

SpecShared == Init /\ [][SharedNext]_vars

(***************************************************************************)
(* The same operations with the hook run at every height, expiry included: *)
(* five miners, enough for a quorum, a checkpoint created directly or by   *)
(* the hook, before a job is queued or after.                              *)
(***************************************************************************)
DirectNext ==
    \/ CreateCheckpointCall(CheckpointInterval, "FF",
                            HeaderValSetHash(CheckpointInterval))
    \/ \E i \in 1..Min(minersCount + 1, SharedMiners) :
          /\ i <= minersCount => Leader(i)
          /\ RegisterMiner(AddressOf(i))
    \/ \E job \in JobInputs : SubmitDockingJob(job)
    \/ \E i \in 0..minersCount :
          /\ Leader(i)
          /\ \E approval \in ApprovalInputs(AddressOf(i)) :
                /\ SubmitMinerApproval(approval)
                /\ ret'.err \in InvalidResultErrors
                       => approval.MinerAddress = Cheater
    \/ \E h \in SharedTickHeights : EndBlocker(h)

SpecDirect == Init /\ [][DirectNext]_vars

(***************************************************************************)
(* Two checkpoint periods: the hook creates a second checkpoint and moves  *)
(* the pending pointer to it while the first one is FINALIZED or EXPIRED.  *)
(* Five miners, enough for a quorum, registered before the first           *)
(* checkpoint; the results they submit are valid.                          *)
(***************************************************************************)
\* The hook is observed at the checkpoint blocks and at the last block inside
\* and the first block past the expiry window of the pending checkpoint, up
\* to the end of the window of the second checkpoint.  The miners call in the
\* order of their names: a miner calls when those before it have approved
\* the pending checkpoint.
SupersedeNext ==
    \/ \E i \in 1..Min(minersCount + 1, SharedMiners) :
          /\ ~HasPendingCheckpoint
          /\ i <= minersCount => Leader(i)
          /\ RegisterMiner(AddressOf(i))
    \/ \E job \in JobInputs : SubmitDockingJob(job)
    \/ \E i \in 0..minersCount :
          /\ HasPendingCheckpoint
                 => \A j \in 1..(i - 1) :
                       AlreadyApproved(GetPendingCheckpoint, AddressOf(j))
          /\ \E approval \in ApprovalInputs(AddressOf(i)) :
                /\ SubmitMinerApproval(approval)
                /\ ret'.err \notin InvalidResultErrors
    \/ \E h \in (height + 1)..Min(height + CheckpointInterval,
                                  2 * CheckpointInterval + ExpiryWindow + 1) :
          /\ \/ IsCheckpointBlock(h)
             \/ /\ HasPendingCheckpoint
                /\ h - pending \in {ExpiryWindow, ExpiryWindow + 1}
          /\ EndBlocker(h)

SpecSupersede == Init /\ [][SupersedeNext]_vars

(***************************************************************************)
(* NovaVerifier (l1-contracts/src/NovaVerifier.sol).  A proof is given by  *)
(* its length, whether it starts with the bytes "NO", and its bytes.       *)
(* keccak256 over the packed fields is taken to be injective: a proof hash *)
(* is the tuple that is hashed.                                            *)
(***************************************************************************)
\* new bytes(100) with proof[0] = 0x01
TestProof == [length |-> 100, nova |-> FALSE, bytes |-> "01"]

\* new bytes(10)
ShortProof == [length |-> 10, nova |-> FALSE, bytes |-> "00"]

\* int64 public claimedEnergy = -60000
ClaimedEnergy == -60000

\* keccak256(abi.encodePacked(problemCommitment, spinCommitment,
\* claimedEnergy, proof)): the threshold is not hashed.
ProofHash(problemCommitment, spinCommitment, claimedEnergy, proof) ==
    <<problemCommitment, spinCommitment, claimedEnergy, proof>>

\* proofSubmissionTime[proofHash], 0 for a hash never written
SubmissionTime(v, proofHash) ==
    IF proofHash \in DOMAIN v.proofSubmissionTime
    THEN v.proofSubmissionTime[proofHash]
    ELSE 0

fullVerify(problemCommitment, spinCommitment, claimedEnergy, threshold, proof) ==
    IF proof.length < FullProofLength
    THEN FALSE
    ELSE IF claimedEnergy > threshold
    THEN FALSE
    ELSE proof.nova

\* Mutant: a challenge is not looked at.
verify_IgnoresChallenge(v, problemCommitment, spinCommitment, claimedEnergy, threshold, proof) ==
    IF v.mode = "STUB"
    THEN proof.length >= StubProofLength /\ claimedEnergy <= threshold
    ELSE IF v.mode = "OPTIMISTIC"
    THEN LET proofHash == ProofHash(problemCommitment, spinCommitment,
                                    claimedEnergy, proof)
             submitTime == SubmissionTime(v, proofHash)
         IN  IF submitTime = 0
             THEN FALSE
             ELSE timestamp >= submitTime + v.challengePeriod
    ELSE fullVerify(problemCommitment, spinCommitment, claimedEnergy,
                    threshold, proof)

\* verify, a view function, on the verifier storage v.
verify(v, problemCommitment, spinCommitment, claimedEnergy, threshold, proof) ==
    IF v.mode = "STUB"
    THEN proof.length >= StubProofLength /\ claimedEnergy <= threshold
    ELSE IF v.mode = "OPTIMISTIC"
    THEN LET proofHash == ProofHash(problemCommitment, spinCommitment,
                                    claimedEnergy, proof)
             submitTime == SubmissionTime(v, proofHash)
         IN  IF submitTime = 0
             THEN FALSE
             ELSE IF proofHash \in v.challengedProofs
             THEN FALSE
             ELSE timestamp >= submitTime + v.challengePeriod
    ELSE fullVerify(problemCommitment, spinCommitment, claimedEnergy,
                    threshold, proof)

\* A verifier call that reverts, and one that returns.
VerifierReverted(v, err) == [err |-> err, verifier |-> v]

VerifierReturned(v) == [err |-> NoError, verifier |-> v]

submitForOptimisticVerification(v, problemCommitment, spinCommitment, claimedEnergy, proof) ==
    LET proofHash == ProofHash(problemCommitment, spinCommitment,
                               claimedEnergy, proof)
    IN  IF v.mode # "OPTIMISTIC"
        THEN VerifierReverted(v, "Not in optimistic mode")
        ELSE IF SubmissionTime(v, proofHash) # 0
        THEN VerifierReverted(v, "Already submitted")
        ELSE VerifierReturned(
                 [v EXCEPT !.proofSubmissionTime =
                     IF proofHash \in DOMAIN @
                     THEN [@ EXCEPT ![proofHash] = timestamp]
                     ELSE @ @@ (proofHash :> timestamp)])

verifyFraudProof(proof, fraudProof) == fraudProof.length > 0

\* "Challenge period ended": block.timestamp < submitTime + challengePeriod
\* does not hold.
ChallengePeriodEnded(v, submitTime) ==
    ~(timestamp < submitTime + v.challengePeriod)

challengeProof(v, problemCommitment, spinCommitment, claimedEnergy, proof, fraudProof) ==
    LET proofHash == ProofHash(problemCommitment, spinCommitment,
                               claimedEnergy, proof)
        submitTime == SubmissionTime(v, proofHash)
    IN  IF v.mode # "OPTIMISTIC"
        THEN VerifierReverted(v, "Not in optimistic mode")
        ELSE IF ~(submitTime > 0)
        THEN VerifierReverted(v, "Proof not submitted")
        ELSE IF ChallengePeriodEnded(v, submitTime)
        THEN VerifierReverted(v, "Challenge period ended")
        ELSE IF proofHash \in v.challengedProofs
        THEN VerifierReverted(v, "Already challenged")
        ELSE IF ~verifyFraudProof(proof, fraudProof)
        THEN VerifierReverted(v, "Invalid fraud proof")
        ELSE VerifierReturned([v EXCEPT !.challengedProofs = @ \cup {proofHash}])

setMode(v, sender, mode) ==
    IF sender # v.owner
    THEN VerifierReverted(v, "Not owner")
    ELSE VerifierReturned([v EXCEPT !.mode = mode])

setChallengePeriod(v, sender, period) ==
    IF sender # v.owner
    THEN VerifierReverted(v, "Not owner")
    ELSE IF ~(period >= MinChallengePeriod)
    THEN VerifierReverted(v, "Period too short")
    ELSE VerifierReturned([v EXCEPT !.challengePeriod = period])

(***************************************************************************)
(* IsingJobManager (l1-contracts/src/IsingJobManager.sol).  A handler is   *)
(* an operator on the world w: the manager's storage and every balance.    *)
(* It gives the error of the revert, or none, and the world it leaves.     *)
(***************************************************************************)
World == [manager |-> isingJobManager, balances |-> balances]

Reverted(w, err) == [err |-> err, manager |-> w.manager, balances |-> w.balances]

Returned(w) == [err |-> NoError, manager |-> w.manager, balances |-> w.balances]

\* The balances after `amount` went from one account to another.
Transfer(bal, from, to, amount) ==
    [[bal EXCEPT ![from] = Minus(@, amount)] EXCEPT ![to] = Plus(@, amount)]

\* Whether a plain transfer of ether to the account succeeds.
Accepts(to) == to # Refuser

postJob(w, sender, value, problemCommitment, threshold, deadline) ==
    IF ~AtLeast(value, minReward)
    THEN Reverted(w, "Reward too low")
    ELSE IF ~(deadline >= timestamp + MinDeadline)
    THEN Reverted(w, "Deadline too soon")
    ELSE IF problemCommitment = ZeroBytes32
    THEN Reverted(w, "Invalid commitment")
    ELSE LET jobId == w.manager.nextJobId
         IN  Returned(
                 [manager |->
                      [w.manager EXCEPT
                          !.nextJobId = @ + 1,
                          !.jobs[jobId] =
                              [problemCommitment |-> problemCommitment,
                               threshold |-> threshold,
                               reward |-> value,
                               deadline |-> deadline,
                               poster |-> sender,
                               solver |-> ZeroAddress,
                               status |-> "OPEN",
                               createdAt |-> timestamp]],
                  balances |-> Transfer(w.balances, sender, ManagerAddress, value)])

\* _verifyProof: without verifier any non-empty proof passes; otherwise the
\* verifier contract decides.
verifyProof(m, problemCommitment, spinCommitment, claimedEnergy, threshold, proof) ==
    IF m.verifier = ZeroAddress
    THEN proof.length > 0
    ELSE verify(novaVerifier, problemCommitment, spinCommitment, claimedEnergy,
                threshold, proof)

\* Mutant: only a solved job counts as not open.
NotOpen_SolvedOnly(job) == job.status = "SOLVED"

\* require(job.status == JobStatus.OPEN, "Job not open") fails.
NotOpen(job) == job.status # "OPEN"

\* uint256 fee = (job.reward * protocolFeePercent) / 100
ProtocolFee(reward, percent) == PercentOf(reward, percent)

\* Mutant: the solver's share is computed as a percentage of its own.
SolverReward_Share(reward, percent) == PercentOf(reward, 100 - percent)

\* uint256 solverReward = job.reward - fee
SolverReward(reward, percent) == Minus(reward, ProtocolFee(reward, percent))

\* No call from inside a receive function.
NoCall == [op |-> "none"]

RECURSIVE Call(_, _, _, _)
RECURSIVE submitProof(_, _, _, _, _, _, _)
RECURSIVE cancelJob(_, _, _, _)
RECURSIVE expireJob(_, _, _, _)
RECURSIVE withdrawFees(_, _, _, _)

\* What the receive function of Reentrant does with the manager once it has
\* been paid: one call, whose revert it catches.
Reenter(w, call) ==
    LET r == CASE call.op = "submitProof" ->
                      submitProof(w, Reentrant, call.jobId, SpinCommitment,
                                  Threshold - 1000, TestProof, NoCall)
               [] call.op = "cancelJob" -> cancelJob(w, Reentrant, call.jobId, NoCall)
               [] call.op = "expireJob" -> expireJob(w, Reentrant, call.jobId, NoCall)
               [] call.op = "withdrawFees" ->
                      withdrawFees(w, Reentrant, Reentrant, NoCall)
               [] OTHER -> Returned(w)
    IN  [manager |-> r.manager, balances |-> r.balances]

\* to.call{value: amount}(""): fails when the manager has not the ether or
\* the account takes none; the code of the account runs after the ether has
\* moved.
Call(w, to, amount, reenter) ==
    IF ~AtLeast(w.balances[ManagerAddress], amount) \/ ~Accepts(to)
    THEN [success |-> FALSE, manager |-> w.manager, balances |-> w.balances]
    ELSE LET paid == [manager |-> w.manager,
                      balances |-> Transfer(w.balances, ManagerAddress, to, amount)]
             after == IF to = Reentrant THEN Reenter(paid, reenter) ELSE paid
         IN  [success |-> TRUE, manager |-> after.manager,
              balances |-> after.balances]

submitProof(w, sender, jobId, spinCommitment, claimedEnergy, proof, reenter) ==
    LET job == w.manager.jobs[jobId]
    IN  IF NotOpen(job)
        THEN Reverted(w, "Job not open")
        ELSE IF ~(timestamp <= job.deadline)
        THEN Reverted(w, "Job expired")
        ELSE IF ~(claimedEnergy <= job.threshold)
        THEN Reverted(w, "Energy exceeds threshold")
        ELSE IF ~verifyProof(w.manager, job.problemCommitment, spinCommitment,
                             claimedEnergy, job.threshold, proof)
        THEN Reverted(w, "Invalid proof")
        ELSE LET fee == ProtocolFee(job.reward, w.manager.protocolFeePercent)
                 solverReward == SolverReward(job.reward,
                                              w.manager.protocolFeePercent)
                 solved ==
                     [w.manager EXCEPT
                         !.jobs[jobId].solver = sender,
                         !.jobs[jobId].status = "SOLVED",
                         !.solutions[jobId] =
                             [spinCommitment |-> spinCommitment,
                              claimedEnergy |-> claimedEnergy,
                              proofTimestamp |-> timestamp],
                         !.collectedFees = Plus(@, fee)]
                 sent == Call([manager |-> solved, balances |-> w.balances],
                              sender, solverReward, reenter)
             IN  IF ~sent.success
                 THEN Reverted(w, "Transfer failed")
                 ELSE Returned(sent)

cancelJob(w, sender, jobId, reenter) ==
    LET job == w.manager.jobs[jobId]
    IN  IF sender # job.poster
        THEN Reverted(w, "Not poster")
        ELSE IF NotOpen(job)
        THEN Reverted(w, "Job not open")
        ELSE LET cancelled == [w.manager EXCEPT !.jobs[jobId].status = "CANCELLED"]
                 sent == Call([manager |-> cancelled, balances |-> w.balances],
                              job.poster, job.reward, reenter)
             IN  IF ~sent.success
                 THEN Reverted(w, "Refund failed")
                 ELSE Returned(sent)

expireJob(w, sender, jobId, reenter) ==
    LET job == w.manager.jobs[jobId]
    IN  IF NotOpen(job)
        THEN Reverted(w, "Job not open")
        ELSE IF ~(timestamp > job.deadline)
        THEN Reverted(w, "Not expired yet")
        ELSE LET expired == [w.manager EXCEPT !.jobs[jobId].status = "EXPIRED"]
                 sent == Call([manager |-> expired, balances |-> w.balances],
                              job.poster, job.reward, reenter)
             IN  IF ~sent.success
                 THEN Reverted(w, "Refund failed")
                 ELSE Returned(sent)

setProtocolFee(w, sender, feePercent) ==
    IF sender # w.manager.owner
    THEN Reverted(w, "Not owner")
    ELSE IF ~(feePercent <= MaxFeePercent)
    THEN Reverted(w, "Fee too high")
    ELSE Returned([manager |-> [w.manager EXCEPT !.protocolFeePercent = feePercent],
                   balances |-> w.balances])

withdrawFees(w, sender, to, reenter) ==
    IF sender # w.manager.owner
    THEN Reverted(w, "Not owner")
    ELSE LET amount == w.manager.collectedFees
             emptied == [w.manager EXCEPT !.collectedFees = NoEther]
             sent == Call([manager |-> emptied, balances |-> w.balances],
                          to, amount, reenter)
         IN  IF ~sent.success
             THEN Reverted(w, "Withdraw failed")
             ELSE Returned(sent)

(***************************************************************************)
(* Transactions to the job manager, and the passing of time.  The verifier *)
(* stays as deployed, in STUB mode.                                        *)
(***************************************************************************)
\* A transaction to the manager: the world its handler leaves, and what the
\* sender sees.
ManagerCall(op, result) ==
    /\ isingJobManager' = result.manager
    /\ balances' = result.balances
    /\ Return(op, result.err)
    /\ UNCHANGED <<height, store, novaVerifier, timestamp>>

\* msg.value of postJob: below minReward, and minReward and some wei.  The
\* hi part of a reward is a multiple of 100.
Values == {Amount(99, 99), Amount(100, 50)}

\* The calls the receive function of Reentrant may make.
Reentries ==
    {NoCall, [op |-> "withdrawFees"]}
        \cup [op : {"submitProof", "cancelJob", "expireJob"},
              jobId : 0..(MaxJobs - 1)]

\* The code of the paid account: only Reentrant runs any.
ReentriesOf(to) == IF to = Reentrant THEN Reentries ELSE {NoCall}

\* vm.warp: the block time moves on.
Warp(t) ==
    /\ t > timestamp
    /\ timestamp' = t
    /\ Return("warp", NoError)
    /\ UNCHANGED <<height, store, isingJobManager, novaVerifier, balances>>

\* The second after the deadline of every posted job.
JobWarpTimes ==
    {isingJobManager.jobs[id].deadline + 1 :
        id \in 0..(isingJobManager.nextJobId - 1)}

\* Energy and proof of a submission: the proof of the tests below the
\* threshold and above it, and a proof too short for the verifier.
Submissions ==
    {[claimedEnergy |-> Threshold - 1000, proof |-> TestProof],
     [claimedEnergy |-> Threshold + 1000, proof |-> TestProof],
     [claimedEnergy |-> Threshold - 1000, proof |-> ShortProof]}

JobsNext ==
    \/ \E sender \in {Poster, Reentrant}, value \in Values,
          problemCommitment \in {ProblemCommitment, ZeroBytes32},
          early \in {0, 1} :
          /\ isingJobManager.nextJobId < MaxJobs
          /\ ManagerCall("postJob",
                 postJob(World, sender, value, problemCommitment, Threshold,
                         timestamp + MinDeadline - early))
    \/ \E sender \in {Solver, Refuser, Reentrant}, jobId \in JobIds,
          submission \in Submissions :
          \E reenter \in ReentriesOf(sender) :
             ManagerCall("submitProof",
                 submitProof(World, sender, jobId, SpinCommitment,
                             submission.claimedEnergy, submission.proof, reenter))
    \/ \E sender \in {Poster, Solver, Reentrant}, jobId \in JobIds :
          \E reenter \in ReentriesOf(isingJobManager.jobs[jobId].poster) :
             ManagerCall("cancelJob", cancelJob(World, sender, jobId, reenter))
    \/ \E jobId \in JobIds :
          \E reenter \in ReentriesOf(isingJobManager.jobs[jobId].poster) :
             ManagerCall("expireJob", expireJob(World, Other, jobId, reenter))
    \/ \E sender \in {Deployer, Other}, to \in {Refuser, Reentrant} :
          \E reenter \in ReentriesOf(to) :
             ManagerCall("withdrawFees", withdrawFees(World, sender, to, reenter))
    \/ \E sender \in {Deployer, Other}, feePercent \in {MaxFeePercent, MaxFeePercent + 1} :
          ManagerCall("setProtocolFee", setProtocolFee(World, sender, feePercent))
    \/ \E t \in JobWarpTimes : Warp(t)

SpecJobs == Init /\ [][JobsNext]_vars

(***************************************************************************)
(* Transactions to the verifier, calls of its view function, and the       *)
(* passing of time.                                                        *)
(***************************************************************************)
VerifierCall(op, result) ==
    /\ novaVerifier' = result.verifier
    /\ Return(op, result.err)
    /\ UNCHANGED <<height, store, isingJobManager, balances, timestamp>>

\* The proofs that are submitted, challenged and asked about.
ProofInputs ==
    [problemCommitment : {ProblemCommitment}, spinCommitment : {SpinCommitment},
     claimedEnergy : {ClaimedEnergy}, proof : {TestProof, ShortProof}]

ProofHashOf(p) ==
    ProofHash(p.problemCommitment, p.spinCommitment, p.claimedEnergy, p.proof)

\* new bytes(50) with fraudProof[0] = 0x01, and no bytes at all
FraudProofs == {[length |-> 50], [length |-> 0]}

\* 2 hours (the tests), 10 minutes, 5 minutes
ChallengePeriods == {7200, MinChallengePeriod, MinChallengePeriod \div 2}

\* The last second of the challenge period of every submitted proof, and
\* the second it is over.
VerifierWarpTimes ==
    UNION {{novaVerifier.proofSubmissionTime[h] + novaVerifier.challengePeriod - 1,
            novaVerifier.proofSubmissionTime[h] + novaVerifier.challengePeriod} :
              h \in DOMAIN novaVerifier.proofSubmissionTime}

\* verify is a view function: the caller learns the value, nothing is written.
verifyCall(p) ==
    /\ ret' = [op |-> "verify", err |-> NoError, proofHash |-> ProofHashOf(p),
               value |-> verify(novaVerifier, p.problemCommitment,
                                p.spinCommitment, p.claimedEnergy, Threshold,
                                p.proof)]
    /\ UNCHANGED <<height, store, l1>>

VerifierNext ==
    \/ \E p \in ProofInputs : verifyCall(p)
    \/ \E p \in ProofInputs :
          VerifierCall("submitForOptimisticVerification",
              submitForOptimisticVerification(novaVerifier, p.problemCommitment,
                  p.spinCommitment, p.claimedEnergy, p.proof))
    \/ \E p \in ProofInputs, fraudProof \in FraudProofs :
          VerifierCall("challengeProof",
              challengeProof(novaVerifier, p.problemCommitment, p.spinCommitment,
                             p.claimedEnergy, p.proof, fraudProof))
    \/ \E sender \in {Deployer, Other}, mode \in {"STUB", "OPTIMISTIC", "FULL"} :
          VerifierCall("setMode", setMode(novaVerifier, sender, mode))
    \/ \E sender \in {Deployer, Other}, period \in ChallengePeriods :
          VerifierCall("setChallengePeriod",
                       setChallengePeriod(novaVerifier, sender, period))
    \/ \E t \in VerifierWarpTimes : Warp(t)

SpecVerifier == Init /\ [][VerifierNext]_vars

(***************************************************************************)
(* Properties.                                                             *)
(***************************************************************************)
Registered == DOMAIN miners

Approvers(c) == {c.MinerApprovals[i].MinerAddress : i \in 1..Len(c.MinerApprovals)}

\* The approval passes every check that precedes the duplicate check: the
\* hash is the pending checkpoint's and the docking result verifies.
WellFormed(approval) ==
    /\ HasPendingCheckpoint
    /\ approval.CheckpointHash = ComputeCheckpointHash(GetPendingCheckpoint)
    /\ VerifyDockingResult(approval.DockingResult, GetPendingCheckpoint) = NoError

Eligible(address) ==
    /\ address \in Registered
    /\ ~miners[address].Slashed
    /\ miners[address].Reputation >= 100

\* Every approval a registered miner or the stranger may submit in this state.
AllApprovals == UNION {ApprovalInputs(a) : a \in Registered \cup {Stranger}}

\* C1: once the pending checkpoint is FINALIZED, every SubmitMinerApproval
\* of a registered eligible miner with the correct hash and a valid result
\* fails and leaves the checkpoints and the miner's record unchanged.
C1_NoApprovalAfterFinalized ==
    [][\A approval \in AllApprovals :
          ( /\ WellFormed(approval)
            /\ Eligible(approval.MinerAddress)
            /\ GetPendingCheckpoint.Status = CheckpointFinalized
            /\ SubmitMinerApproval(approval) )
          => /\ ret'.err # NoError
             /\ checkpoints' = checkpoints
             /\ miners' = miners]_vars

\* C2: an EXPIRED checkpoint keeps the status EXPIRED in every later state.
C2_ExpiredIsTerminal ==
    [][\A k \in DOMAIN checkpoints :
          checkpoints[k].Status = CheckpointExpired
          => checkpoints'[k].Status = CheckpointExpired]_vars

\* C3: a FINALIZED checkpoint keeps the status FINALIZED in every later
\* state, whatever ticks, approvals and registrations follow.
C3_FinalizedIsIrreversible ==
    [][\A k \in DOMAIN checkpoints :
          checkpoints[k].Status = CheckpointFinalized
          => /\ k \in DOMAIN checkpoints'
             /\ checkpoints'[k].Status = CheckpointFinalized]_vars

\* C3 witness: a finalized checkpoint has seen a tick more than 100 blocks
\* past its height and an approval submitted after that tick.
C3_Witness ==
    \E k \in DOMAIN checkpoints :
        /\ checkpoints[k].Status = CheckpointFinalized
        /\ height - k > 100
        /\ ret.op = "SubmitMinerApproval"

NoDuplicateApprovals ==
    \A k \in DOMAIN checkpoints :
        \A i, j \in 1..Len(checkpoints[k].MinerApprovals) :
            checkpoints[k].MinerApprovals[i].MinerAddress
                = checkpoints[k].MinerApprovals[j].MinerAddress => i = j

\* A well-formed approval of a miner that already approved the pending
\* checkpoint fails as a duplicate and writes nothing.
DuplicateRejected(approval) ==
    /\ ret'.err = "miner already approved this checkpoint"
    /\ checkpoints' = checkpoints
    /\ miners' = miners

\* C4 as stated: no checkpoint holds two approvals of one miner, and every
\* well-formed second approval of a miner fails as a duplicate, leaving the
\* approval count, the reputation and jobsCompleted unchanged.
C4_DuplicateAlwaysRejectedAsDuplicate ==
    [][\A approval \in AllApprovals :
          ( /\ WellFormed(approval)
            /\ approval.MinerAddress \in Approvers(GetPendingCheckpoint)
            /\ SubmitMinerApproval(approval) )
          => DuplicateRejected(approval)]_vars

\* C4 amended: no checkpoint holds two approvals of one miner, and every
\* well-formed second approval of a miner that is still eligible fails as a
\* duplicate; one of a miner that is no longer eligible fails as not
\* eligible; either way nothing is written.
C4_NoDuplicateApprovals ==
    /\ NoDuplicateApprovals
    /\ \A approval \in AllApprovals :
          ( /\ WellFormed(approval)
            /\ approval.MinerAddress \in Approvers(GetPendingCheckpoint) )
          => LET result == SubmitMinerApprovalResult(approval)
             IN  /\ result.checkpoints = checkpoints
                 /\ result.miners = miners
                 /\ IF Eligible(approval.MinerAddress)
                    THEN result.err = "miner already approved this checkpoint"
                    ELSE result.err = "miner not eligible to participate"

\* C4 witness: a duplicate has been rejected.
C4_Witness ==
    /\ ret = [op |-> "SubmitMinerApproval",
              err |-> "miner already approved this checkpoint"]
    /\ \E k \in DOMAIN checkpoints : Len(checkpoints[k].MinerApprovals) >= 2

\* C5: CanFinalize is true exactly when there are at least 5 approvals and
\* the truncated percentage approvals*100/totalMiners is at least 67 (never
\* for 0 miners): 4 of 4, 5 of 10 and 6 of 9 do not finalize, 7 of 10 does.
C5_CanFinalizeRule ==
    ret.op = "CanFinalize" =>
        /\ ret.value <=> ( /\ ret.approvals >= 5
                           /\ ret.totalMiners # 0
                           /\ (ret.approvals * 100) \div ret.totalMiners >= 67 )
        /\ (ret.approvals = 4 /\ ret.totalMiners = 4) => ~ret.value
        /\ (ret.approvals = 5 /\ ret.totalMiners = 10) => ~ret.value
        /\ (ret.approvals = 7 /\ ret.totalMiners = 10) => ret.value
        /\ (ret.approvals = 6 /\ ret.totalMiners = 9) => ~ret.value

\* C5 witness: the rule has been applied to 7 approvals of 10 miners.
C5_Witness ==
    /\ ret.op = "CanFinalize"
    /\ ret.approvals = 7
    /\ ret.totalMiners = 10
    /\ ret.value

\* C6: every FINALIZED checkpoint holds at least 5 approvals, all of distinct
\* registered miners; so nothing is finalized while fewer than 5 miners are
\* registered.
C6_FinalizedHasQuorum ==
    \A k \in DOMAIN checkpoints :
        checkpoints[k].Status = CheckpointFinalized
        => /\ Cardinality(Approvers(checkpoints[k])) >= 5
           /\ Approvers(checkpoints[k]) \subseteq Registered
           /\ Cardinality(Registered) >= 5

\* C6 witness: a checkpoint is finalized by exactly 5 approvals.
C6_Witness ==
    \E k \in DOMAIN checkpoints :
        /\ checkpoints[k].Status = CheckpointFinalized
        /\ Len(checkpoints[k].MinerApprovals) = 5

\* C7: with 7 registered miners and a PENDING checkpoint, each accepted
\* approval is appended; the checkpoint stays PENDING after the 1st to 4th
\* and is FINALIZED, and made the latest, by the call that adds the 5th.
C7_FinalizedAtFifthOfSeven ==
    [][( /\ minersCount = 7
         /\ HasPendingCheckpoint
         /\ GetPendingCheckpoint.Status = CheckpointPending
         /\ ret' = [op |-> "SubmitMinerApproval", err |-> NoError] )
       => LET n == Len(GetPendingCheckpoint.MinerApprovals) + 1
              after == checkpoints'[pending]
          IN  /\ Len(after.MinerApprovals) = n
              /\ n <= 5
              /\ n <= 4 => after.Status = CheckpointPending /\ latest' = latest
              /\ n = 5 => after.Status = CheckpointFinalized /\ latest' = pending]_vars

\* C7 witness: the 5th approval of 7 miners has just been accepted.
C7_Witness ==
    /\ minersCount = 7
    /\ ret = [op |-> "SubmitMinerApproval", err |-> NoError]
    /\ HasPendingCheckpoint
    /\ Len(GetPendingCheckpoint.MinerApprovals) = 5
    /\ GetPendingCheckpoint.Status = CheckpointFinalized

\* C8: an approval of an eligible miner that carries the hash computed for
\* another height or another block hash than the pending checkpoint's fails
\* with the hash mismatch, whatever its docking result, and changes neither
\* the checkpoints nor any miner.
C8_HashMismatchRejected ==
    \A a \in Registered, c \in ObservedCheckpoints, r \in Results :
        ( /\ Eligible(a)
          /\ HasPendingCheckpoint
          /\ \/ c.Height # GetPendingCheckpoint.Height
             \/ c.BlockHash # GetPendingCheckpoint.BlockHash )
        => SubmitMinerApprovalResult([MinerAddress |-> a,
                                      CheckpointHash |-> ComputeCheckpointHash(c),
                                      DockingResult |-> r,
                                      Signature |-> "sig"])
              = [err |-> "checkpoint hash mismatch", checkpoints |-> checkpoints,
                 latest |-> latest, miners |-> miners]

\* C8 witness: an approval has been rejected for its hash.
C8_Witness ==
    /\ ret = [op |-> "SubmitMinerApproval", err |-> "checkpoint hash mismatch"]
    /\ HasPendingCheckpoint
    /\ \E a \in Registered : Eligible(a)

\* C9: an approval of an eligible miner with the pending checkpoint's hash
\* and a result whose job is not in the checkpoint or whose resultHash is
\* not the recomputed one fails, records nothing, and takes 200 off the
\* miner's reputation if it was at least 200, else sets it to 0 and slashed.
C9_InvalidResultSlashes ==
    \A approval \in AllApprovals :
        ( /\ Eligible(approval.MinerAddress)
          /\ HasPendingCheckpoint
          /\ approval.CheckpointHash = ComputeCheckpointHash(GetPendingCheckpoint)
          /\ \/ \A i \in 1..Len(GetPendingCheckpoint.DockingJobs) :
                   GetPendingCheckpoint.DockingJobs[i].JobID
                       # approval.DockingResult.JobID
             \/ approval.DockingResult.ResultHash
                   # computeResultHash(approval.DockingResult) )
        => LET result == SubmitMinerApprovalResult(approval)
           IN  /\ result.err \in InvalidResultErrors
               /\ result.checkpoints = checkpoints
               /\ result.miners =
                     [miners EXCEPT ![approval.MinerAddress] =
                         IF @.Reputation >= 200
                         THEN [@ EXCEPT !.Reputation = @ - 200]
                         ELSE [@ EXCEPT !.Reputation = 0, !.Slashed = TRUE]]

\* C9 witness: an invalid result has taken the miner to the floor.
C9_Witness ==
    /\ ret.op = "SubmitMinerApproval"
    /\ ret.err \in InvalidResultErrors
    /\ Cheater \in Registered
    /\ miners[Cheater].Reputation = 0
    /\ miners[Cheater].Slashed

\* C10: whenever SlashMiner leaves a miner with reputation 0, the miner is
\* marked slashed.
C10_ZeroImpliesSlashed ==
    (ret.op = "SlashMiner" /\ ret.address \in Registered)
    => (miners[ret.address].Reputation = 0 => miners[ret.address].Slashed)

\* C11: a PENDING checkpoint created at height H is left PENDING by every
\* tick up to and including H+100 and is EXPIRED by the tick at H+101.
C11_ExpiryBoundary ==
    [][( /\ ret'.op = "EndBlocker"
         /\ HasPendingCheckpoint
         /\ GetPendingCheckpoint.Status = CheckpointPending )
       => /\ \A x \in (height + 1)..height' :
                x - pending <= 100
                => expireOldCheckpoints(checkpoints, pending, x) = checkpoints
          /\ IF height' - pending <= 100
             THEN checkpoints'[pending].Status = CheckpointPending
             ELSE /\ height' = pending + 101
                  /\ checkpoints'[pending].Status = CheckpointExpired]_vars

\* C11 witness: the tick at H+101 has expired the checkpoint.
C11_Witness ==
    /\ ret.op = "EndBlocker"
    /\ HasPendingCheckpoint
    /\ height = pending + 101
    /\ GetPendingCheckpoint.Status = CheckpointExpired

\* C12: at most one stored checkpoint has status PENDING; a checkpoint
\* created while an earlier one is referenced by the pending pointer never
\* finds that earlier one still PENDING.
C12_AtMostOnePending ==
    Cardinality({k \in DOMAIN checkpoints :
                    checkpoints[k].Status = CheckpointPending}) <= 1

\* C13: every miner's reputation is within 0..1000 in every state; a step
\* that changes it is an accepted approval adding 10, capped at 1000, or a
\* slash taking 200 off, floored at 0.
C13_ReputationWithinBounds ==
    /\ [](\A a \in DOMAIN miners : miners[a].Reputation \in 0..1000)
    /\ [][\A a \in DOMAIN miners :
             miners'[a].Reputation # miners[a].Reputation
             => IF ret' = [op |-> "SubmitMinerApproval", err |-> NoError]
                THEN miners'[a].Reputation
                        = IF miners[a].Reputation + 10 > 1000
                          THEN 1000
                          ELSE miners[a].Reputation + 10
                ELSE miners'[a].Reputation
                        = IF miners[a].Reputation - 200 < 0
                          THEN 0
                          ELSE miners[a].Reputation - 200]_vars

\* C13 witness: an approval is accepted from a miner whose reputation is
\* held at the cap.
C13_Witness ==
    /\ ret = [op |-> "SubmitMinerApproval", err |-> NoError]
    /\ Careerist \in DOMAIN miners
    /\ miners[Careerist].Reputation = 1000
    /\ miners[Careerist].JobsCompleted >= 51

\* C14: SlashMiner on a miner with reputation 0 and slashed leaves the
\* record as it is, however often it is applied; SlashMiner on an address
\* that is not registered changes nothing in the store.
C14_SlashMinerIdempotent ==
    [][ret'.op = "SlashMiner"
       => /\ ret'.address \notin DOMAIN miners => UNCHANGED store
          /\ ( /\ ret'.address \in DOMAIN miners
               /\ miners[ret'.address].Reputation = 0
               /\ miners[ret'.address].Slashed )
             => UNCHANGED store]_vars

\* C14 witness: SlashMiner has been applied to a miner that had reputation
\* 0 and was slashed.
C14_Witness ==
    /\ ret.op = "SlashMiner"
    /\ ret.address \in DOMAIN miners
    /\ ret.before = 0
    /\ miners[ret.address].Reputation = 0
    /\ miners[ret.address].Slashed

\* C15: a miner record is never deleted, a slashed miner stays slashed, and
\* a RegisterMiner call leaves every existing record as it is.
C15_SlashedIsOneWay ==
    [][\A a \in DOMAIN miners :
          /\ a \in DOMAIN miners'
          /\ miners[a].Slashed => miners'[a].Slashed
          /\ ret'.op = "RegisterMiner" => miners'[a] = miners[a]]_vars

\* C15 witness: RegisterMiner has been called for the only registered
\* miner, which is slashed.
C15_Witness ==
    /\ ret = [op |-> "RegisterMiner", err |-> "miner already registered"]
    /\ DOMAIN miners = {Cheater}
    /\ miners[Cheater].Slashed
    /\ miners[Cheater].Reputation = 0

\* C16: every approval submitted by a registered miner that is slashed or
\* has a reputation below 100 fails as not eligible and writes nothing,
\* whatever its hash and result; and every approval that is recorded comes
\* from a miner that was eligible when it submitted.
C16_IneligibleRejected ==
    /\ [](\A approval \in AllApprovals :
             ( /\ approval.MinerAddress \in Registered
               /\ \/ miners[approval.MinerAddress].Slashed
                  \/ miners[approval.MinerAddress].Reputation < 100 )
             => SubmitMinerApprovalResult(approval)
                   = [err |-> "miner not eligible to participate",
                      checkpoints |-> checkpoints,
                      latest |-> latest,
                      miners |-> miners])
    /\ [][\A k \in DOMAIN checkpoints :
             checkpoints'[k].MinerApprovals # checkpoints[k].MinerApprovals
             => LET a == checkpoints'[k].MinerApprovals[
                             Len(checkpoints'[k].MinerApprovals)].MinerAddress
                IN  /\ ~miners[a].Slashed
                    /\ miners[a].Reputation >= 100]_vars

\* C16 witness: a miner that is not slashed but has a reputation below 100
\* has been refused.
C16_Witness ==
    /\ ret = [op |-> "SubmitMinerApproval",
              err |-> "miner not eligible to participate"]
    /\ DOMAIN miners = {Careerist}
    /\ ~miners[Careerist].Slashed
    /\ miners[Careerist].Reputation < 100

\* C17: every checkpoint is stored under its own height; CreateCheckpoint
\* at a height that has a checkpoint fails and changes nothing; at a free
\* height it stores a PENDING checkpoint without approvals and leaves the
\* others and the pending pointer as they are; and the hook at a height
\* that has a checkpoint leaves it and the pending pointer as they are.
C17_OneCheckpointPerHeight ==
    /\ [](\A k \in DOMAIN checkpoints : checkpoints[k].Height = k)
    /\ [][ret'.op = "CreateCheckpoint"
          => IF ret'.height \in DOMAIN checkpoints
             THEN /\ ret'.err # NoError
                  /\ UNCHANGED store
             ELSE /\ ret'.err = NoError
                  /\ DOMAIN checkpoints' = DOMAIN checkpoints \cup {ret'.height}
                  /\ checkpoints'[ret'.height].Status = CheckpointPending
                  /\ checkpoints'[ret'.height].MinerApprovals = <<>>
                  /\ \A k \in DOMAIN checkpoints : checkpoints'[k] = checkpoints[k]
                  /\ UNCHANGED <<pending, latest, miners, minersCount, jobQueue>>]_vars
    /\ [][(ret'.op = "EndBlocker" /\ height' \in DOMAIN checkpoints)
          => /\ checkpoints'[height'] = checkpoints[height']
             /\ pending' = pending]_vars

\* C17 witness: CreateCheckpoint has failed at the height of a checkpoint
\* that holds an approval.
C17_Witness ==
    /\ ret.op = "CreateCheckpoint"
    /\ ret.err = "checkpoint already exists for this height"
    /\ checkpoints[ret.height].MinerApprovals # <<>>

\* C18: RegisterMiner for a new address adds a record with reputation 500,
\* jobsCompleted 0 and slashed false and raises the miner counter by one;
\* RegisterMiner for a present address fails and changes nothing.
C18_RegisterMiner ==
    [][ret'.op = "RegisterMiner"
       => \A address \in Addresses :
             RegisterMiner(address)
             => IF address \in DOMAIN miners
                THEN /\ ret'.err # NoError
                     /\ UNCHANGED store
                ELSE /\ ret'.err = NoError
                     /\ DOMAIN miners' = DOMAIN miners \cup {address}
                     /\ miners'[address].Reputation = 500
                     /\ miners'[address].JobsCompleted = 0
                     /\ miners'[address].Slashed = FALSE
                     /\ \A a \in DOMAIN miners : miners'[a] = miners[a]
                     /\ minersCount' = minersCount + 1
                     /\ UNCHANGED <<checkpoints, pending, latest, jobQueue>>]_vars

\* C18 witness: a second miner has been registered.
C18_Witness ==
    /\ ret = [op |-> "RegisterMiner", err |-> NoError]
    /\ minersCount = 2
    /\ DOMAIN miners = {AddressOf(1), AddressOf(2)}
    /\ miners[AddressOf(2)].Reputation = 500

\* C19: the miner counter equals the number of miner records, slashed ones
\* included, and never decreases; and the quorum an accepted approval is
\* measured against is that number.
C19_CounterCountsEveryMiner ==
    /\ [](minersCount = Cardinality(DOMAIN miners))
    /\ [][minersCount' >= minersCount]_vars
    /\ [](\A approval \in AllApprovals :
             ( /\ WellFormed(approval)
               /\ Eligible(approval.MinerAddress)
               /\ approval.MinerAddress \notin Approvers(GetPendingCheckpoint) )
             => LET result == SubmitMinerApprovalResult(approval)
                    n == Len(GetPendingCheckpoint.MinerApprovals) + 1
                IN  /\ result.err = NoError
                    /\ result.checkpoints[pending].Status = CheckpointFinalized
                       <=> ( /\ n >= 5
                             /\ (n * 100) \div Cardinality(DOMAIN miners) >= 67 ))

\* C19 witness: with a slashed miner among 6, a fourth approval has been
\* accepted and the checkpoint is still pending.
C19_Witness ==
    /\ ret = [op |-> "SubmitMinerApproval", err |-> NoError]
    /\ minersCount = 6
    /\ miners[Cheater].Slashed
    /\ HasPendingCheckpoint
    /\ Len(GetPendingCheckpoint.MinerApprovals) = 4
    /\ GetPendingCheckpoint.Status = CheckpointPending

\* The job of the result is in the pending checkpoint and the result hash
\* is the one recomputed from the result's fields.
ResultVerifies(approval) ==
    /\ \E i \in 1..Len(GetPendingCheckpoint.DockingJobs) :
          GetPendingCheckpoint.DockingJobs[i].JobID = approval.DockingResult.JobID
    /\ approval.DockingResult.ResultHash = computeResultHash(approval.DockingResult)

\* The failure of the first failing check, in the order: registered,
\* eligible, pending checkpoint, hash, docking result, duplicate.
FirstFailure(approval) ==
    IF approval.MinerAddress \notin Registered
    THEN {"miner not registered"}
    ELSE IF ~Eligible(approval.MinerAddress)
    THEN {"miner not eligible to participate"}
    ELSE IF ~HasPendingCheckpoint
    THEN {"no pending checkpoint"}
    ELSE IF approval.CheckpointHash # ComputeCheckpointHash(GetPendingCheckpoint)
    THEN {"checkpoint hash mismatch"}
    ELSE IF ~ResultVerifies(approval)
    THEN InvalidResultErrors
    ELSE IF approval.MinerAddress \in Approvers(GetPendingCheckpoint)
    THEN {"miner already approved this checkpoint"}
    ELSE {NoError}

\* C20: SubmitMinerApproval reports the first failing check of the fixed
\* order; a submission with a wrong hash is not slashed even if its result
\* is invalid, and a miner that already approved and submits an invalid
\* result with the right hash is slashed, not refused as a duplicate.
C20_FirstFailingCheck ==
    \A approval \in AllApprovals :
        LET result == SubmitMinerApprovalResult(approval)
            a == approval.MinerAddress
        IN  /\ result.err \in FirstFailure(approval)
            /\ ( /\ Eligible(a)
                 /\ HasPendingCheckpoint
                 /\ approval.CheckpointHash
                        # ComputeCheckpointHash(GetPendingCheckpoint)
                 /\ ~ResultVerifies(approval) )
               => result.miners = miners
            /\ ( /\ Eligible(a)
                 /\ HasPendingCheckpoint
                 /\ approval.CheckpointHash
                        = ComputeCheckpointHash(GetPendingCheckpoint)
                 /\ ~ResultVerifies(approval)
                 /\ a \in Approvers(GetPendingCheckpoint) )
               => /\ result.err \in InvalidResultErrors
                  /\ result.miners[a].Reputation
                        = IF miners[a].Reputation >= 200
                          THEN miners[a].Reputation - 200
                          ELSE 0

\* C20 witness: a miner that had approved the pending checkpoint has been
\* slashed for an invalid result.
C20_Witness ==
    /\ ret.op = "SubmitMinerApproval"
    /\ ret.err \in InvalidResultErrors
    /\ HasPendingCheckpoint
    /\ Cheater \in Approvers(GetPendingCheckpoint)
    /\ miners[Cheater].Reputation = 310

\* The failures of SubmitMinerApproval other than an invalid docking result.
PreconditionErrors ==
    {"miner not registered", "miner not eligible to participate",
     "no pending checkpoint", "checkpoint hash mismatch",
     "miner already approved this checkpoint"}

\* C21: a SubmitMinerApproval that fails for a reason other than an invalid
\* docking result writes nothing: checkpoints, miner records, miner counter,
\* pending pointer, latest-finalized pointer and job queue are as before.
C21_RefusalWritesNothing ==
    /\ [](\A approval \in AllApprovals :
             LET result == SubmitMinerApprovalResult(approval)
             IN  result.err \in PreconditionErrors
                 => /\ result.checkpoints = checkpoints
                    /\ result.latest = latest
                    /\ result.miners = miners)
    /\ [][( /\ ret'.op = "SubmitMinerApproval"
            /\ ret'.err \in PreconditionErrors )
          => UNCHANGED store]_vars

\* C21 witness: an approval with a wrong checkpoint hash has been refused
\* while the pending checkpoint held approvals and nothing was finalized.
C21_Witness ==
    /\ ret = [op |-> "SubmitMinerApproval", err |-> "checkpoint hash mismatch"]
    /\ HasPendingCheckpoint
    /\ Len(GetPendingCheckpoint.MinerApprovals) = 2
    /\ latest = NoKey

\* s is an initial part of t.
IsPrefix(s, t) ==
    /\ Len(s) <= Len(t)
    /\ \A i \in 1..Len(s) : t[i] = s[i]

\* C22: an accepted SubmitMinerApproval puts the approval at the end of the
\* pending checkpoint's minerApprovals, the earlier entries keeping content
\* and order, adds 1 to the submitter's jobsCompleted and 10 to its
\* reputation up to 1000, and changes no other miner record and no other
\* checkpoint; and no step removes or alters a recorded approval.
C22_AcceptedApprovalEffect ==
    /\ [](\A approval \in AllApprovals :
             LET result == SubmitMinerApprovalResult(approval)
                 a == approval.MinerAddress
                 old == GetPendingCheckpoint.MinerApprovals
                 new == result.checkpoints[pending].MinerApprovals
             IN  result.err = NoError
                 => /\ Len(new) = Len(old) + 1
                    /\ IsPrefix(old, new)
                    /\ new[Len(new)] = approval
                    /\ DOMAIN result.checkpoints = DOMAIN checkpoints
                    /\ \A k \in DOMAIN checkpoints \ {pending} :
                          result.checkpoints[k] = checkpoints[k]
                    /\ result.miners[a].JobsCompleted = miners[a].JobsCompleted + 1
                    /\ result.miners[a].Reputation
                          = IF miners[a].Reputation + 10 > 1000
                            THEN 1000
                            ELSE miners[a].Reputation + 10
                    /\ result.miners[a].Slashed = miners[a].Slashed
                    /\ DOMAIN result.miners = DOMAIN miners
                    /\ \A b \in DOMAIN miners \ {a} : result.miners[b] = miners[b])
    /\ [][\A k \in DOMAIN checkpoints :
             /\ k \in DOMAIN checkpoints'
             /\ IsPrefix(checkpoints[k].MinerApprovals,
                         checkpoints'[k].MinerApprovals)]_vars
    /\ [][( /\ ret'.op = "SubmitMinerApproval"
            /\ ret'.err = NoError )
          => /\ Len(checkpoints'[pending].MinerApprovals)
                   = Len(checkpoints[pending].MinerApprovals) + 1
             /\ UNCHANGED <<pending, minersCount, jobQueue>>]_vars

\* C22 witness: the 51st accepted approval of a miner has been capped at
\* 1000 while a second registered miner stood by with its record untouched.
C22_Witness ==
    /\ ret = [op |-> "SubmitMinerApproval", err |-> NoError]
    /\ miners[Careerist].Reputation = 1000
    /\ miners[Careerist].JobsCompleted = 51
    /\ Bystander \in DOMAIN miners
    /\ miners[Bystander] = NewMiner(Bystander)
    /\ Len(GetPendingCheckpoint.MinerApprovals) = 1

\* C23: an accepted approval that completes the quorum leaves the pending
\* checkpoint FINALIZED with finalizedAt the time of the block and the
\* latest-finalized pointer at its height; in every state the
\* latest-finalized pointer, when set, names a stored FINALIZED checkpoint,
\* and a checkpoint has finalizedAt set exactly when it is FINALIZED.
C23_FinalizeEffectAndPointer ==
    /\ [](latest # NoKey
             => /\ latest \in DOMAIN checkpoints
                /\ checkpoints[latest].Status = CheckpointFinalized)
    /\ [](\A k \in DOMAIN checkpoints :
             checkpoints[k].FinalizedAt # NoTime
                 <=> checkpoints[k].Status = CheckpointFinalized)
    /\ [][( /\ ret'.op = "SubmitMinerApproval"
            /\ ret'.err = NoError
            /\ Len(checkpoints'[pending].MinerApprovals) >= 5
            /\ (Len(checkpoints'[pending].MinerApprovals) * 100)
                   \div minersCount >= 67 )
          => /\ checkpoints'[pending].Status = CheckpointFinalized
             /\ checkpoints'[pending].FinalizedAt = BlockTime(height + 1)
             /\ latest' = pending]_vars

\* C23 witness: the fifth approval of six miners has finalized the pending
\* checkpoint and the latest-finalized pointer names it.
C23_Witness ==
    /\ ret = [op |-> "SubmitMinerApproval", err |-> NoError]
    /\ minersCount = 6
    /\ latest = CheckpointInterval
    /\ pending = latest
    /\ Len(checkpoints[latest].MinerApprovals) = 5
    /\ checkpoints[latest].Status = CheckpointFinalized
    /\ checkpoints[latest].FinalizedAt = BlockTime(height + 1)

\* The number of checkpoints that hold an approval of the miner.
ApprovedCheckpoints(address) ==
    Cardinality({k \in DOMAIN checkpoints : address \in Approvers(checkpoints[k])})

\* No approval is lost and no miner is recorded twice: no checkpoint holds
\* two approvals of one miner, every miner is in as many checkpoints as it
\* had approvals accepted, an accepted call adds its miner, not recorded
\* before, after the approvals already there, and a refused call leaves
\* every approval list as it is.
ApprovalsNeitherLostNorDoubled ==
    /\ [](NoDuplicateApprovals)
    /\ [](\A a \in DOMAIN miners :
             ApprovedCheckpoints(a) = miners[a].JobsCompleted)
    /\ [][( /\ ret'.op = "SubmitMinerApproval"
            /\ ret'.err = NoError )
          => LET old == checkpoints[pending].MinerApprovals
                 new == checkpoints'[pending].MinerApprovals
             IN  /\ Len(new) = Len(old) + 1
                 /\ IsPrefix(old, new)
                 /\ new[Len(new)].MinerAddress \notin Approvers(checkpoints[pending])
                 /\ \A k \in DOMAIN checkpoints \ {pending} :
                       checkpoints'[k] = checkpoints[k]]_vars
    /\ [][( /\ ret'.op = "SubmitMinerApproval"
            /\ ret'.err # NoError )
          => checkpoints' = checkpoints]_vars

\* The miner of the approval a step has appended to the pending checkpoint.
Submitter(new) == new[Len(new)].MinerAddress

\* C24 as stated: under every interleaving of atomic SubmitMinerApproval
\* calls no approval is lost and no miner is recorded twice, and every
\* accepted approval raises its miner's reputation by exactly 10.
C24_ExactlyTenPerApproval ==
    /\ ApprovalsNeitherLostNorDoubled
    /\ [][( /\ ret'.op = "SubmitMinerApproval"
            /\ ret'.err = NoError )
          => LET a == Submitter(checkpoints'[pending].MinerApprovals)
             IN  /\ miners'[a].Reputation = miners[a].Reputation + 10
                 /\ \A b \in DOMAIN miners \ {a} : miners'[b] = miners[b]]_vars

\* C24: under every interleaving of atomic SubmitMinerApproval calls no
\* approval is lost and no miner is recorded twice, and every accepted
\* approval raises its miner's reputation by 10, up to 1000.
C24_AtomicApprovals ==
    /\ ApprovalsNeitherLostNorDoubled
    /\ [][( /\ ret'.op = "SubmitMinerApproval"
            /\ ret'.err = NoError )
          => LET a == Submitter(checkpoints'[pending].MinerApprovals)
             IN  /\ miners'[a].Reputation
                       = Min(miners[a].Reputation + 10, 1000)
                 /\ \A b \in DOMAIN miners \ {a} : miners'[b] = miners[b]]_vars

\* C24 witness: three miners have approved the same pending checkpoint, the
\* one at the cap last, and a repeated call of one of them has been refused.
C24_Witness ==
    /\ ret = [op |-> "SubmitMinerApproval",
              err |-> "miner already approved this checkpoint"]
    /\ HasPendingCheckpoint
    /\ Approvers(GetPendingCheckpoint) = Racers
    /\ Len(GetPendingCheckpoint.MinerApprovals) = RaceMiners
    /\ Submitter(GetPendingCheckpoint.MinerApprovals) = Careerist
    /\ miners[Careerist].JobsCompleted = 51
    /\ miners[Careerist].Reputation = 1000
    /\ \A a \in Racers \ {Careerist} : miners[a].Reputation = 510

PostedJobs == 0..(isingJobManager.nextJobId - 1)

\* No posted job that has left OPEN changes again.
LeftOpenForGood ==
    [][\A id \in PostedJobs :
          isingJobManager.jobs[id].status # "OPEN"
              => isingJobManager'.jobs[id] = isingJobManager.jobs[id]]_vars

\* submitProof and expireJob on a posted job that is not OPEN revert with
\* "Job not open", whoever calls, and leave the world as it is.
SolveAndExpireNeedOpen ==
    \A id \in PostedJobs :
        isingJobManager.jobs[id].status # "OPEN"
            => /\ \A sender \in Accounts, submission \in Submissions :
                     submitProof(World, sender, id, SpinCommitment,
                                 submission.claimedEnergy, submission.proof,
                                 NoCall)
                         = Reverted(World, "Job not open")
               /\ \A sender \in Accounts :
                     expireJob(World, sender, id, NoCall)
                         = Reverted(World, "Job not open")

\* C26 as stated: a posted job leaves OPEN at most once, and submitProof,
\* cancelJob and expireJob on a job that is not OPEN each revert with
\* "Job not open".
C26_AlwaysJobNotOpen ==
    /\ LeftOpenForGood
    /\ [](SolveAndExpireNeedOpen)
    /\ [](\A id \in PostedJobs :
             isingJobManager.jobs[id].status # "OPEN"
                 => \A sender \in Accounts :
                       cancelJob(World, sender, id, NoCall)
                           = Reverted(World, "Job not open"))

\* C26: a posted job leaves OPEN at most once: SOLVED, EXPIRED and CANCELLED
\* are final.  On a job that is not OPEN, submitProof and expireJob revert
\* with "Job not open", and cancelJob reverts with "Job not open" when the
\* poster calls and with "Not poster" when another account calls.
C26_TerminalStatuses ==
    /\ LeftOpenForGood
    /\ [](SolveAndExpireNeedOpen)
    /\ [](\A id \in PostedJobs :
             isingJobManager.jobs[id].status # "OPEN"
                 => \A sender \in Accounts :
                       cancelJob(World, sender, id, NoCall)
                           = Reverted(World,
                                 IF sender = isingJobManager.jobs[id].poster
                                 THEN "Job not open"
                                 ELSE "Not poster"))

\* C26 witness: the poster of the one posted job, which is solved, has
\* tried to cancel it and has been refused.
C26_Witness ==
    /\ ret = [op |-> "cancelJob", err |-> "Job not open"]
    /\ isingJobManager.nextJobId = 1
    /\ isingJobManager.jobs[0].status = "SOLVED"
    /\ isingJobManager.jobs[0].solver = Solver

RECURSIVE SumOfOpenRewards(_)
\* The rewards of the OPEN jobs among the first n.
SumOfOpenRewards(n) ==
    IF n = 0
    THEN NoEther
    ELSE IF isingJobManager.jobs[n - 1].status = "OPEN"
    THEN Plus(SumOfOpenRewards(n - 1), isingJobManager.jobs[n - 1].reward)
    ELSE SumOfOpenRewards(n - 1)

\* The ether of the manager is the rewards of the OPEN jobs and the fees.
EscrowBalanced ==
    balances[ManagerAddress]
        = Plus(SumOfOpenRewards(isingJobManager.nextJobId),
               isingJobManager.collectedFees)

\* (reward * percent) / 100, written out on the two parts of the amount.
FeeOf(reward, percent) ==
    Amount((reward.hi * percent) \div 100, (reward.lo * percent) \div 100)

\* C27: the manager holds exactly the rewards of the OPEN jobs and the
\* collected fees, after every transaction, reentrant ones included.  A
\* submitProof that returns pays the solver the reward less the fee and adds
\* the fee to collectedFees; a cancelJob or expireJob that returns pays the
\* poster the whole reward; withdrawFees pays out collectedFees and leaves 0.
C27_EscrowAccounting ==
    /\ EscrowBalanced
    /\ \A id \in PostedJobs :
          LET job == isingJobManager.jobs[id]
              fee == FeeOf(job.reward, isingJobManager.protocolFeePercent)
          IN  /\ \A sender \in Accounts, submission \in Submissions :
                    LET r == submitProof(World, sender, id, SpinCommitment,
                                         submission.claimedEnergy,
                                         submission.proof, NoCall)
                    IN  r.err = NoError
                        => /\ r.balances[sender]
                                 = Plus(balances[sender], Minus(job.reward, fee))
                           /\ r.manager.collectedFees
                                 = Plus(isingJobManager.collectedFees, fee)
                           /\ r.balances[ManagerAddress]
                                 = Minus(balances[ManagerAddress],
                                         Minus(job.reward, fee))
                           /\ r.manager.jobs[id].status = "SOLVED"
              /\ \A sender \in Accounts :
                    LET r == cancelJob(World, sender, id, NoCall)
                    IN  r.err = NoError
                        => /\ r.balances[job.poster]
                                 = Plus(balances[job.poster], job.reward)
                           /\ r.manager.collectedFees
                                 = isingJobManager.collectedFees
                           /\ r.manager.jobs[id].status = "CANCELLED"
              /\ \A sender \in Accounts :
                    LET r == expireJob(World, sender, id, NoCall)
                    IN  r.err = NoError
                        => /\ r.balances[job.poster]
                                 = Plus(balances[job.poster], job.reward)
                           /\ r.manager.collectedFees
                                 = isingJobManager.collectedFees
                           /\ r.manager.jobs[id].status = "EXPIRED"
    /\ \A to \in Accounts :
          LET r == withdrawFees(World, isingJobManager.owner, to, NoCall)
          IN  r.err = NoError
              => /\ r.balances[to]
                       = Plus(balances[to], isingJobManager.collectedFees)
                 /\ r.manager.collectedFees = NoEther

\* C27 witness: of two posted jobs one is open and one has been solved at a
\* fee of 1 percent, rounded down, which the manager still holds.
C27_Witness ==
    /\ ret = [op |-> "submitProof", err |-> NoError]
    /\ isingJobManager.nextJobId = 2
    /\ isingJobManager.jobs[0].status = "OPEN"
    /\ isingJobManager.jobs[1].status = "SOLVED"
    /\ isingJobManager.jobs[1].solver = Solver
    /\ isingJobManager.collectedFees = Amount(1, 0)
    /\ balances[Solver] = Plus(Funds, Amount(99, 50))
    /\ balances[ManagerAddress] = Amount(101, 50)

\* The proofs of ProofInputs by their hash.
ProofHashes == {ProofHashOf(p) : p \in ProofInputs}

\* What verify reports for the proof in OPTIMISTIC mode rests on the three
\* conditions: submitted, not challenged, period over.
OptimisticValidOnlyIf(v, proofHash, valid) ==
    valid => /\ SubmissionTime(v, proofHash) # 0
             /\ proofHash \notin v.challengedProofs
             /\ timestamp - SubmissionTime(v, proofHash) >= v.challengePeriod

\* C28: in OPTIMISTIC mode verify returns true for a proof only if the proof
\* was submitted with submitForOptimisticVerification, is not challenged, and
\* at least challengePeriod has passed since the submission.  A submission
\* time is written once, by submitForOptimisticVerification, as the time of
\* the call.  A proof becomes challenged only by a challengeProof strictly
\* before its submission time plus challengePeriod, stays challenged, and is
\* never reported valid in OPTIMISTIC mode.
C28_OptimisticVerify ==
    /\ [](novaVerifier.mode = "OPTIMISTIC"
            => /\ \A p \in ProofInputs, threshold \in {Threshold, ClaimedEnergy - 1} :
                    /\ OptimisticValidOnlyIf(novaVerifier, ProofHashOf(p),
                           verify(novaVerifier, p.problemCommitment,
                                  p.spinCommitment, p.claimedEnergy, threshold,
                                  p.proof))
                    /\ ProofHashOf(p) \in novaVerifier.challengedProofs
                           => ~verify(novaVerifier, p.problemCommitment,
                                      p.spinCommitment, p.claimedEnergy,
                                      threshold, p.proof)
               /\ ret.op = "verify"
                     => OptimisticValidOnlyIf(novaVerifier, ret.proofHash,
                                              ret.value))
    /\ [][\A h \in ProofHashes :
             SubmissionTime(novaVerifier', h) # SubmissionTime(novaVerifier, h)
                 => /\ ret' = [op |-> "submitForOptimisticVerification",
                               err |-> NoError]
                    /\ novaVerifier.mode = "OPTIMISTIC"
                    /\ SubmissionTime(novaVerifier, h) = 0
                    /\ SubmissionTime(novaVerifier', h) = timestamp]_vars
    /\ [][\A h \in ProofHashes :
             h \in novaVerifier'.challengedProofs \ novaVerifier.challengedProofs
                 => /\ ret' = [op |-> "challengeProof", err |-> NoError]
                    /\ novaVerifier.mode = "OPTIMISTIC"
                    /\ SubmissionTime(novaVerifier, h) # 0
                    /\ timestamp < SubmissionTime(novaVerifier, h)
                                       + novaVerifier.challengePeriod]_vars
    /\ [][novaVerifier.challengedProofs \subseteq novaVerifier'.challengedProofs]_vars

\* C28 witness: verify has just returned true for a proof whose challenge
\* period ended this very second, while the other proof, challenged in the
\* last second of its period, is past its period too and not valid.
C28_Witness ==
    /\ novaVerifier.mode = "OPTIMISTIC"
    /\ ret.op = "verify"
    /\ ret.value
    /\ timestamp = SubmissionTime(novaVerifier, ret.proofHash)
                       + novaVerifier.challengePeriod
    /\ \E h \in novaVerifier.challengedProofs :
          /\ h # ret.proofHash
          /\ timestamp >= SubmissionTime(novaVerifier, h)
                              + novaVerifier.challengePeriod

\* C29 as stated: once finalizedAt of a checkpoint is set it never changes,
\* and a checkpoint that is FINALIZED is not finalized again.
C29_FinalizedAtMostOnce ==
    [][\A k \in DOMAIN checkpoints :
          checkpoints[k].FinalizedAt # NoTime
              => checkpoints'[k].FinalizedAt = checkpoints[k].FinalizedAt]_vars

\* C30: an EndBlocker at height h creates a checkpoint only if h is a
\* positive multiple of CheckpointInterval that has no checkpoint, and then
\* creates the one of height h and makes h the pending height.  Any other
\* tick creates nothing, leaves the pending height as it is, and leaves every
\* checkpoint as it is but for the status of the one that expires.
C30_TickCreatesAndPoints ==
    [][height' # height
          => LET h == height'
                 due == h % CheckpointInterval = 0 /\ h > 0
                            /\ h \notin DOMAIN checkpoints
             IN  /\ ret'.op = "EndBlocker"
                 /\ DOMAIN checkpoints'
                        = DOMAIN checkpoints \cup (IF due THEN {h} ELSE {})
                 /\ pending' = IF due THEN h ELSE pending
                 /\ due => /\ checkpoints'[h].Height = h
                           /\ checkpoints'[h].MinerApprovals = <<>>
                           /\ checkpoints'[h].FinalizedAt = NoTime
                 /\ \A k \in DOMAIN checkpoints :
                       checkpoints'[k]
                           = [checkpoints[k] EXCEPT
                                 !.Status = checkpoints'[k].Status]]_vars

\* C30 witness: the tick of height 200 found the checkpoint of that height
\* in the store, put there by a direct CreateCheckpoint, and no height is
\* pending.
C30_Witness ==
    /\ ret.op = "EndBlocker"
    /\ height = CheckpointInterval
    /\ CheckpointInterval \in DOMAIN checkpoints
    /\ checkpoints[CheckpointInterval].BlockHash = "FF"
    /\ pending = NoKey

\* The heights at which the hook creates a checkpoint.
CheckpointBlocks == {h \in 1..MaxHeight : IsCheckpointBlock(h)}

NotPendingAnyMore(k) ==
    checkpoints[k].Status \in {CheckpointFinalized, CheckpointExpired}

\* C31: with the hook run at every height, a checkpoint created at height H
\* is FINALIZED or EXPIRED once the hook of height H + 101 has run, and so
\* every checkpoint leaves PENDING, whatever approvals arrive or fail to.
C31_LeavesPending ==
    /\ [](\A k \in DOMAIN checkpoints :
             height >= k + ExpiryWindow + 1 => NotPendingAnyMore(k))
    /\ \A k \in CheckpointBlocks :
          (k \in DOMAIN checkpoints)
              ~> (k \in DOMAIN checkpoints /\ NotPendingAnyMore(k))

\* C31 witness: the hook of height H + 101 has just run on a checkpoint that
\* four of seven miners had approved, and the checkpoint is EXPIRED.
C31_Witness ==
    /\ ret.op = "EndBlocker"
    /\ height = CheckpointInterval + ExpiryWindow + 1
    /\ CheckpointInterval \in DOMAIN checkpoints
    /\ checkpoints[CheckpointInterval].Status = CheckpointExpired
    /\ Len(checkpoints[CheckpointInterval].MinerApprovals) = 4
    /\ minersCount = MaxMiners

CheckpointStatuses ==
    {CheckpointPending, CheckpointApproved, CheckpointFinalized, CheckpointExpired}

\* C32: a stored checkpoint keeps its Height, BlockHash, ValidatorSetHash and
\* DockingJobs in every step.  Its hash is the hash of the same checkpoint
\* without approvals and in any status, so no step changes the hash, and
\* all approvals a checkpoint holds, first to last, carry one and the same
\* hash: the hash of the checkpoint as it is now.
C32_HashStable ==
    /\ [][\A k \in DOMAIN checkpoints :
             /\ k \in DOMAIN checkpoints'
             /\ checkpoints'[k].Height = checkpoints[k].Height
             /\ checkpoints'[k].BlockHash = checkpoints[k].BlockHash
             /\ checkpoints'[k].ValidatorSetHash = checkpoints[k].ValidatorSetHash
             /\ checkpoints'[k].DockingJobs = checkpoints[k].DockingJobs
             /\ ComputeCheckpointHash(checkpoints'[k])
                    = ComputeCheckpointHash(checkpoints[k])]_vars
    /\ [](\A k \in DOMAIN checkpoints :
             /\ \A status \in CheckpointStatuses :
                   ComputeCheckpointHash(
                       [checkpoints[k] EXCEPT !.MinerApprovals = <<>>,
                                              !.Status = status])
                       = ComputeCheckpointHash(checkpoints[k])
             /\ \A i \in 1..Len(checkpoints[k].MinerApprovals) :
                   checkpoints[k].MinerApprovals[i].CheckpointHash
                       = ComputeCheckpointHash(checkpoints[k]))

\* C32 witness: a checkpoint holds the approvals of six miners, the last of
\* them accepted with the hash the first one presented, in a later block.
C32_Witness ==
    /\ ret = [op |-> "SubmitMinerApproval", err |-> NoError]
    /\ height > CheckpointInterval
    /\ CheckpointInterval \in DOMAIN checkpoints
    /\ LET approvals == checkpoints[CheckpointInterval].MinerApprovals
       IN  /\ Len(approvals) = 6
           /\ approvals[1].CheckpointHash = approvals[6].CheckpointHash

\* The job of the result is one of the batch of the checkpoint.
JobInBatch(result, checkpoint) ==
    result.JobID \in {checkpoint.DockingJobs[i].JobID :
                         i \in 1..Len(checkpoint.DockingJobs)}

\* The ResultHash is the one of the four fields of the result.
HashOfOwnFields(result) ==
    result.ResultHash = result.JobID \o "|" \o result.Affinity \o "|"
                            \o result.PoseHash \o "|" \o result.ADMETHash

\* C33: VerifyDockingResult returns nil exactly when the job of the result
\* is in the checkpoint's batch and the ResultHash is the hash of (JobID,
\* Affinity, PoseHash, ADMETHash); it fails as job-not-in-checkpoint
\* whenever the job is outside the batch, whatever the hash, and as
\* result-hash-mismatch otherwise; it writes nothing.  Both keepers.
C33_VerifyDockingResult ==
    /\ [](ret.op \in {"VerifyDockingResult", "ChainVerifyDockingResult"}
            => /\ ret.err = NoError
                    <=> /\ JobInBatch(ret.result, ret.checkpoint)
                        /\ HashOfOwnFields(ret.result)
               /\ ~JobInBatch(ret.result, ret.checkpoint)
                    => ret.err = IF ret.op = "VerifyDockingResult"
                                 THEN "job not found in checkpoint"
                                 ELSE "job not in checkpoint"
               /\ JobInBatch(ret.result, ret.checkpoint)
                     /\ ~HashOfOwnFields(ret.result)
                    => ret.err = "result hash mismatch")
    /\ [][UNCHANGED <<store, height, l1>>]_vars

\* C33 witness: a result for a job outside a batch of two, with a hash that
\* is wrong as well, has failed as job not found.
C33_Witness ==
    /\ ret.op = "VerifyDockingResult"
    /\ ret.err = "job not found in checkpoint"
    /\ ret.result.JobID = UnknownJob
    /\ ~HashOfOwnFields(ret.result)
    /\ Len(ret.checkpoint.DockingJobs) = 2

\* The nexus-chain keeper, run on the store the nexus-miner keeper started
\* from, leaves the store the nexus-miner keeper left and accepts the call
\* exactly if the nexus-miner keeper did.
Agree(r) ==
    /\ r.store = KeeperStore'
    /\ r.err = NoError <=> ret'.err = NoError

\* C34: in every step of the nexus-miner keeper by RegisterMiner,
\* CreateCheckpoint, SubmitMinerApproval or EndBlocker, with no PENDING
\* checkpoint left past its expiry window, the nexus-chain keeper given the
\* same store and the same call accepts or rejects alike and leaves the same
\* checkpoints, miners, miner count, pending and latest pointers.  Both
\* start from the empty store, so they agree after every sequence of calls.
C34_KeepersAgree ==
    [][/\ ret'.op = "RegisterMiner"
          => \A a \in Addresses :
                RegisterMiner(a) => Agree(chain_RegisterMiner(KeeperStore, a))
       /\ ret'.op = "CreateCheckpoint"
          => \A blockHash \in {HeaderBlockHash(ret'.height), "FF"} :
                CreateCheckpointCall(ret'.height, blockHash,
                                     HeaderValSetHash(ret'.height))
                    => Agree(chain_CreateCheckpoint(KeeperStore, ret'.height,
                                 blockHash, HeaderValSetHash(ret'.height),
                                 BlockTime(height + 1)))
       /\ ret'.op = "SubmitMinerApproval"
          => \A i \in 0..minersCount :
                \A approval \in ApprovalInputs(AddressOf(i)) :
                   SubmitMinerApproval(approval)
                       => Agree(chain_SubmitMinerApproval(KeeperStore, approval,
                                    BlockTime(height + 1)))
       /\ ret'.op = "EndBlocker"
          => KeeperStore' = chain_EndBlocker(KeeperStore, height')]_vars

\* C34 witness: the fifth of five miners has just approved and finalized the
\* checkpoint, in the last block before the expiry window closes.
C34_Witness ==
    /\ ret = [op |-> "SubmitMinerApproval", err |-> NoError]
    /\ height = CheckpointInterval + ExpiryWindow
    /\ latest = CheckpointInterval
    /\ Len(checkpoints[CheckpointInterval].MinerApprovals) = SharedMiners
    /\ checkpoints[CheckpointInterval].FinalizedAt = BlockTime(height + 1)

\* The miner is slashed or has a reputation below 100.
Ineligible(m) == m.Slashed \/ m.Reputation < MinReputation

\* C35: a miner that is slashed or below 100 stays so: in every step its
\* reputation does not rise, no checkpoint gains an approval of it, and it
\* is ineligible afterwards; every approval it submits is refused as not
\* eligible and writes nothing.  A reputation rises only by an accepted
\* approval of a miner that was eligible.
C35_IneligibleForGood ==
    /\ [][\A a \in DOMAIN miners :
             /\ Ineligible(miners[a])
                => /\ Ineligible(miners'[a])
                   /\ miners'[a].Reputation <= miners[a].Reputation
                   /\ miners'[a].JobsCompleted = miners[a].JobsCompleted
                   /\ ApprovedCheckpoints(a)' = ApprovedCheckpoints(a)
             /\ miners'[a].Reputation > miners[a].Reputation
                => /\ ret' = [op |-> "SubmitMinerApproval", err |-> NoError]
                   /\ ~Ineligible(miners[a])]_vars
    /\ [](\A a \in DOMAIN miners :
             Ineligible(miners[a])
                => \A approval \in ApprovalInputs(a) :
                      SubmitMinerApprovalResult(approval)
                          = Rejected("miner not eligible to participate"))

\* C35 witness: a miner that is not slashed has fallen to reputation 10
\* and has just been refused.
C35_Witness ==
    /\ ret = [op |-> "SubmitMinerApproval",
              err |-> "miner not eligible to participate"]
    /\ Careerist \in DOMAIN miners
    /\ ~miners[Careerist].Slashed
    /\ miners[Careerist].Reputation = 10
    /\ miners[Careerist].JobsCompleted = 11

\* The submissions of a miner that carry the hash of the checkpoint at k.
SubmissionsFor(address, k) ==
    [MinerAddress : {address},
     CheckpointHash : {ComputeCheckpointHash(checkpoints[k])},
     DockingResult : Results, Signature : {"sig"}]

\* The submission is refused as an invalid docking result, the miner is
\* slashed and nothing else is written.
RefusedAndSlashed(approval) ==
    LET r == SubmitMinerApprovalResult(approval)
    IN  /\ r.err = "invalid docking result: job not found in checkpoint"
        /\ r.checkpoints = checkpoints
        /\ r.latest = latest
        /\ r.miners = [miners EXCEPT ![approval.MinerAddress] = Penalize(@)]
        /\ r.miners # miners

WithoutJobs == {k \in DOMAIN checkpoints : checkpoints[k].DockingJobs = <<>>}

C37_NoPendingQuorum ==
    \A k \in DOMAIN checkpoints :
        checkpoints[k].Status = CheckpointPending
            => ~CanFinalize(checkpoints[k], GetActiveMinerCount)

\* An approval has just been accepted and its checkpoint is left PENDING:
\* the approvals are above the threshold share of the miners and one short
\* of the minimum number of signers.
C37_Witness ==
    /\ ret = [op |-> "SubmitMinerApproval", err |-> NoError]
    /\ HasPendingCheckpoint
    /\ GetPendingCheckpoint.Status = CheckpointPending
    /\ Len(GetPendingCheckpoint.MinerApprovals) = MinCheckpointSigners - 1
    /\ ApprovalPercentage(GetPendingCheckpoint, GetActiveMinerCount)
           >= CheckpointThreshold
    /\ GetActiveMinerCount > Len(GetPendingCheckpoint.MinerApprovals)

\* The checkpoints the pending pointer has moved past.
Superseded == {k \in DOMAIN checkpoints : HasPendingCheckpoint /\ k < pending}

\* C38: a step changes no stored checkpoint other than the pending one (a
\* SubmitMinerApproval step, which leaves the pointer alone, changes at most
\* the checkpoint the pointer names); the pointer never moves back; so the
\* checkpoints the pointer has moved past keep their status, minerApprovals
\* and finalizedAt, and one that is not FINALIZED never becomes FINALIZED.
C38_OnlyPending ==
    [][/\ \A k \in DOMAIN checkpoints :
             /\ k \in DOMAIN checkpoints'
             /\ k # pending' => checkpoints'[k] = checkpoints[k]
       /\ ret'.op = "SubmitMinerApproval" => pending' = pending
       /\ pending' >= pending
       /\ \A k \in Superseded :
             /\ k \in Superseded'
             /\ checkpoints'[k].Status = checkpoints[k].Status
             /\ checkpoints'[k].MinerApprovals = checkpoints[k].MinerApprovals
             /\ checkpoints'[k].FinalizedAt = checkpoints[k].FinalizedAt
             /\ checkpoints[k].Status # CheckpointFinalized
                    => checkpoints'[k].Status # CheckpointFinalized]_vars

\* The first checkpoint expired one approval short of the quorum and was
\* superseded; the approval just accepted has finalized the second one and
\* left the first one as it was.
C38_Witness ==
    /\ ret = [op |-> "SubmitMinerApproval", err |-> NoError]
    /\ pending = 2 * CheckpointInterval
    /\ CheckpointInterval \in Superseded
    /\ checkpoints[CheckpointInterval].Status = CheckpointExpired
    /\ Len(checkpoints[CheckpointInterval].MinerApprovals)
           = MinCheckpointSigners - 1
    /\ checkpoints[CheckpointInterval].FinalizedAt = NoTime
    /\ checkpoints[pending].Status = CheckpointFinalized

\* C39: with EndBlocker run at increasing heights, the latest-finalized
\* pointer never decreases, and whenever it is set the pending pointer is
\* set and is not below it.
C39_LatestBehindPending ==
    /\ [](latest # NoKey => HasPendingCheckpoint /\ latest <= pending)
    /\ [][/\ latest' >= latest
          /\ latest # NoKey => latest' # NoKey]_vars

\* Both checkpoints are FINALIZED: the latest-finalized pointer has moved from
\* the first to the second, where the pending pointer is.
C39_Witness ==
    /\ latest = 2 * CheckpointInterval
    /\ pending = latest
    /\ checkpoints[CheckpointInterval].Status = CheckpointFinalized
    /\ checkpoints[latest].Status = CheckpointFinalized

\* The approval is one the checkpoint c accepts: a registered miner, the hash
\* of c, a result for a job of c whose hash is that of its own fields.
WellFormedFor(approval, c) ==
    /\ approval.MinerAddress \in DOMAIN miners
    /\ approval.CheckpointHash = ComputeCheckpointHash(c)
    /\ \E i \in 1..Len(c.DockingJobs) :
          c.DockingJobs[i].JobID = approval.DockingResult.JobID
    /\ approval.DockingResult.ResultHash
           = computeResultHash(approval.DockingResult)

\* C40: every approval stored in a checkpoint is well-formed for that
\* checkpoint, and no checkpoint holds more approvals than there are active
\* miners.
C40_StoredApprovalsWellFormed ==
    \A k \in DOMAIN checkpoints :
        /\ \A i \in 1..Len(checkpoints[k].MinerApprovals) :
              WellFormedFor(checkpoints[k].MinerApprovals[i], checkpoints[k])
        /\ Len(checkpoints[k].MinerApprovals) <= GetActiveMinerCount

\* Every active miner has approved the checkpoint, more of them than the
\* quorum needs, one of them slashed since, while invalid results were
\* refused.
C40_Witness ==
    /\ HasPendingCheckpoint
    /\ Len(GetPendingCheckpoint.MinerApprovals) = GetActiveMinerCount
    /\ GetActiveMinerCount > MinCheckpointSigners
    /\ AlreadyApproved(GetPendingCheckpoint, Cheater)
    /\ ~CanParticipate(miners[Cheater])

====
